---- MODULE Spec2Model ----
(***************************************************************************)
(* A model of aiswitch's process-orchestration core (aiswitch/cli_wrapper): *)
(* GenericAdapter, StdioController, CLIProcessSession, CLIAgentWrapper and  *)
(* CLIAgentManager; and of MultiAgentManager (aiswitch/multi_agent).        *)
(*                                                                          *)
(* The code is asyncio code: one thread, tasks that run from one suspending *)
(* await to the next.  An action of the model is one such run of one task;  *)
(* the child process, its pipes and the clock are the environment.          *)
(*                                                                          *)
(* The specifications share the variables:                                *)
(*   SessionSpec    one session in full detail: pipes, the two readers,    *)
(*                  the output queue, the clock,                           *)
(*                  StdioController.execute_command                        *)
(*   Spec           the registry: register_agent, create_session,          *)
(*                  terminate_agent over several agents and sessions       *)
(*   BatchSpec      execute_parallel / execute_sequential over a populated *)
(*                  registry, with a concurrent terminate_agent            *)
(*   TerminateSpec  terminate() and execute_command on one session         *)
(*   EchoSpec       a session that runs cat, prompt pattern '.*'           *)
(*   AdapterSpec    GenericAdapter.is_command_complete on its own          *)
(*   RoutingSpec    single create_session / execute_command / get_status   *)
(*                  calls routed by the manager                            *)
(*   LeftoverSpec   a command sent on a session whose earlier command left *)
(*                  output behind                                          *)
(*   StopSpec       StdioController.start / stop called on their own       *)
(*   MultiSpec      MultiAgentManager: register_agent, execute_task and    *)
(*                  terminate_agent calls that overlap                     *)
(***************************************************************************)
EXTENDS Integers, Sequences, FiniteSets, TLC

(* ------------------------------ bounds --------------------------------- *)
\* lines the child process may emit in one behaviour of SessionSpec
MaxEmit == 2
\* the clock of SessionSpec stops here (seconds)
MaxTime == 2
\* execute_command calls made in one behaviour of SessionSpec
MaxCalls == 2
\* session objects created in one behaviour of Spec
MaxSessions == 2
\* agent wrapper objects created in one behaviour of Spec
MaxWrappers == 2
\* items of one batch in BatchSpec
MaxBatch == 2

(* ------------------------- program constants --------------------------- *)
\* asyncio.wait_for(self.output_buffer.get(), timeout=1.0), in seconds
PollTimeout == 1

AgentIds == {"a1", "a2"}
\* CLIAgentManager.adapters: the adapter table has the one key 'generic'
AdapterTable == {"generic"}
AdapterNames == {"generic", "unknown"}

\* a chunk of output that text-mode readline() cannot decode
BadBytes == "<undecodable>"
\* what a child process may write to each stream; readline() returns a line
\* with its line end.  "$ " is a shell prompt, "\n" a blank line.
RawLines(stream) ==
    IF stream = "stdout" THEN {"$ \n", "ok\r\n", BadBytes}
    ELSE {"err\n", "\n"}
\* timeouts a caller may pass, in seconds (0 stands for any timeout below
\* one second, 0.1 for instance: the clock is read at whole seconds)
Timeouts == {0, 1}

(* --------------------------- pure functions ---------------------------- *)
Last(s) == SubSeq(s, Len(s), Len(s))

\* str.rstrip('\n\r')
RECURSIVE rstrip(_)
rstrip(line) ==
    IF Len(line) > 0 /\ Last(line) \in {"\n", "\r"}
    THEN rstrip(SubSeq(line, 1, Len(line) - 1))
    ELSE line

\* '\n'.join(lines)
RECURSIVE join(_)
join(lines) ==
    IF Len(lines) = 0 THEN ""
    ELSE IF Len(lines) = 1 THEN lines[1]
    ELSE lines[1] \o "\n" \o join(Tail(lines))

\* text.split('\n'): always at least one piece
RECURSIVE split_from(_, _, _)
split_from(text, i, cur) ==
    IF i > Len(text) THEN <<cur>>
    ELSE IF SubSeq(text, i, i) = "\n"
         THEN <<cur>> \o split_from(text, i + 1, "")
         ELSE split_from(text, i + 1, cur \o SubSeq(text, i, i))
split(text) == split_from(text, 1, "")

\* whether needle occurs in text
contains(text, needle) ==
    \E i \in 1..(Len(text) - Len(needle) + 1) :
        SubSeq(text, i, i + Len(needle) - 1) = needle

Whitespace == {" ", "\t", "\n", "\r", "\f"}
PromptChars == {"$", "#", ">"}

\* re.compile(r'.*[$#>]\s*$').match(line): some prompt character with
\* nothing but white space after it and no line break before it
prompt_match(line) ==
    \E i \in 1..Len(line) :
        /\ SubSeq(line, i, i) \in PromptChars
        /\ \A j \in 1..(i - 1) : SubSeq(line, j, j) # "\n"
        /\ \A j \in (i + 1)..Len(line) : SubSeq(line, j, j) \in Whitespace

\* GenericAdapter.is_command_complete, for an adapter not named 'claude'
is_command_complete(stdout_lines, stderr_lines) ==
    IF Len(stdout_lines) = 0 THEN FALSE
    ELSE prompt_match(stdout_lines[Len(stdout_lines)])

\* GenericAdapter.parse_result
parse_result(raw) ==
    LET output_text == join(raw.stdout)
        error_text  == join(raw.stderr)
        lines       == split(output_text)
        kept        == IF prompt_match(lines[Len(lines)])
                       THEN SubSeq(lines, 1, Len(lines) - 1)
                       ELSE lines
    IN [output  |-> join(kept),
        error   |-> error_text,
        success |-> Len(error_text) = 0]

(* ------------------------------- state --------------------------------- *)
VARIABLES
    agents,     \* CLIAgentManager.agents: agent id -> wrapper object
                \* (MultiSpec: MultiAgentManager.agents)
    wrappers,   \* the CLIAgentWrapper objects ever built, by object number
                \* (MultiSpec: the agent_info dictionaries ever stored)
    sess,       \* the CLIProcessSession objects ever built, by session id
    execs,      \* SessionSpec: the execute_command calls made on session 1
    tasks,      \* the calls of the manager (or of stop()) in progress
    batch,      \* BatchSpec: the execute_parallel / execute_sequential call
    now,        \* the event loop's clock, in seconds
    emitted,    \* lines the child process has written so far
    ev          \* what the last step returned or raised to its caller

vars == <<agents, wrappers, sess, execs, tasks, batch, now, emitted, ev>>

\* the line StdioController.execute_command records for its own time-out
TimeoutLine == "Execution error: Command execution timeout"
\* the line a reader records when readline() raises
ReaderErrorLine(stream) ==
    IF stream = "stdout" THEN "Output reader error: invalid bytes"
    ELSE "Error reader error: invalid bytes"
\* op: the operation; who: the task or caller; aid: its agent id argument;
\* val: a returned session id; err: a raised exception; res: returned results
NoEv == [op |-> "", kind |-> "none", who |-> 0, aid |-> "", val |-> 0,
         err |-> "", res |-> <<>>]
Returned(op, who, aid, val, res) ==
    [op |-> op, kind |-> "return", who |-> who, aid |-> aid, val |-> val,
     err |-> "", res |-> res]
Raised(op, who, aid, err) ==
    [op |-> op, kind |-> "raise", who |-> who, aid |-> aid, val |-> 0,
     err |-> err, res |-> <<>>]

\* CLIProcessSession.__init__
NewSession(agent_id, t) ==
    [agent_id |-> agent_id, status |-> "stopped", process |-> "none",
     stdio |-> FALSE, cancelled |-> FALSE, command_count |-> 0,
     last_activity |-> t,
     \* StdioController
     running |-> FALSE, output_task |-> "none", error_task |-> "none",
     output_buffer |-> <<>>,
     \* the child's pipes: what it wrote and nobody read yet, what it was sent
     stdout |-> <<>>, stderr |-> <<>>, stdin |-> <<>>]

\* the session as CLIProcessSession.start leaves it on success: process
\* spawned, controller built, both readers started, status RUNNING
StartedSession(agent_id, t) ==
    [NewSession(agent_id, t) EXCEPT
        !.process = "alive", !.stdio = TRUE, !.running = TRUE,
        !.output_task = "new", !.error_task = "new", !.status = "running"]

NoResult == [outcome |-> "none", success |-> FALSE,
             parsed |-> [output |-> "", error |-> "", success |-> FALSE]]
IdleExec == [pc |-> "idle", timeout |-> 0,
             start_time |-> 0, wait_start |-> 0,
             output_lines |-> <<>>, error_lines |-> <<>>,
             exit |-> "", result |-> NoResult]

\* kind: which call; commands: its argument; items: the executions of
\* CLIAgentWrapper.execute_command it has begun, in the order it began them;
\* results: the list it builds; i: the for loop's position
NoBatch == [kind |-> "none", pc |-> "idle", commands |-> <<>>, items |-> <<>>,
            results |-> <<>>, i |-> 0]

IdleTask == [op |-> "idle", pc |-> "", aid |-> "", obj |-> 0, sid |-> 0,
             keys |-> <<>>]

\* the one command text callers send
Command == "hello"

(* ---------------------- the child process and clock -------------------- *)
\* the child writes a line to its stdout or stderr
ProcEmit(s, stream, line) ==
    /\ sess[s].process = "alive"
    /\ emitted < MaxEmit
    /\ sess' = [sess EXCEPT ![s][stream] = Append(@, line)]
    /\ emitted' = emitted + 1
    /\ ev' = NoEv
    /\ UNCHANGED <<agents, wrappers, execs, tasks, batch, now>>

\* the child exits on its own
ProcExit(s) ==
    /\ sess[s].process = "alive"
    /\ sess' = [sess EXCEPT ![s].process = "exited"]
    /\ ev' = NoEv
    /\ UNCHANGED <<agents, wrappers, execs, tasks, batch, now, emitted>>

\* a second passes.  Only a waiting execute_command reads the clock, so the
\* model lets time pass only while one waits.
Tick ==
    /\ now < MaxTime
    /\ \E c \in DOMAIN execs : execs[c].pc = "get"
    /\ now' = now + 1
    /\ ev' = NoEv
    /\ UNCHANGED <<agents, wrappers, sess, execs, tasks, batch, emitted>>

(* --------------------- StdioController: the readers -------------------- *)
ReaderTask(stream) == IF stream = "stdout" THEN "output_task" ELSE "error_task"

\* the loop condition of _output_reader / _error_reader
ReaderGoesOn(s) == s.running /\ s.process = "alive"

\* the two reader tasks run for the first time, one right after the other
\* (start() queued them together), each up to its first readline()
ReadersStart(s) ==
    /\ sess[s].output_task = "new"
    /\ sess[s].error_task = "new"
    /\ sess' = [sess EXCEPT
                  ![s].output_task = IF ReaderGoesOn(sess[s]) THEN "reading" ELSE "done",
                  ![s].error_task = IF ReaderGoesOn(sess[s]) THEN "reading" ELSE "done"]
    /\ ev' = NoEv
    /\ UNCHANGED <<agents, wrappers, execs, tasks, batch, now, emitted>>

\* readline() returns a line (or raises on bytes it cannot decode): the
\* reader queues it and goes round its loop
ReaderRead(s, stream) ==
    /\ sess[s][ReaderTask(stream)] = "reading"
    /\ sess[s][stream] # <<>>
    /\ LET line == Head(sess[s][stream])
           s1   == [sess[s] EXCEPT ![stream] = Tail(@)]
       IN sess' = [sess EXCEPT ![s] =
            IF line = BadBytes
            THEN [s1 EXCEPT
                    !.output_buffer = Append(@, <<"error", ReaderErrorLine(stream)>>),
                    ![ReaderTask(stream)] = "done"]
            ELSE [s1 EXCEPT
                    !.output_buffer = Append(@, <<stream, rstrip(line)>>),
                    ![ReaderTask(stream)] =
                        IF ReaderGoesOn(s1) THEN "reading" ELSE "done"]]
    /\ ev' = NoEv
    /\ UNCHANGED <<agents, wrappers, execs, tasks, batch, now, emitted>>

\* readline() returns '' at the end of the stream: the reader stops
ReaderEOF(s, stream) ==
    /\ sess[s][ReaderTask(stream)] = "reading"
    /\ sess[s][stream] = <<>>
    /\ sess[s].process = "exited"
    /\ sess' = [sess EXCEPT ![s][ReaderTask(stream)] = "done"]
    /\ ev' = NoEv
    /\ UNCHANGED <<agents, wrappers, execs, tasks, batch, now, emitted>>

(* ------------------- CLIProcessSession.execute_command ----------------- *)
\* the CommandResult of the except branches (here its fields that matter)
FailedResult(error) ==
    [outcome |-> "returned", success |-> FALSE,
     parsed |-> [output |-> "", error |-> error, success |-> FALSE]]

\* the CommandResult built once StdioController.execute_command returned
\* raw: adapter.parse_result(raw) wrapped with success=True, unless the
\* adapter's parse_result raises
ParseFailure == "parse_result failed"
CommandResultOf(raw, parse_fails) ==
    IF parse_fails THEN FailedResult(ParseFailure)
    ELSE [outcome |-> "returned", success |-> TRUE, parsed |-> parse_result(raw)]

RaisedResult == [NoResult EXCEPT !.outcome = "raised"]

SendFailure == "Failed to send input: Broken pipe"

\* a variant of Session_execute_begin in which a failing send_input is not
\* caught by the session: it leaves execute_command as an exception
Session_execute_begin_uncaught(s, format_fails) ==
    IF s.status # "running" \/ (~format_fails /\ s.process # "alive")
    THEN [kind |-> "raise", s |-> s, result |-> RaisedResult]
    ELSE LET s1 == [s EXCEPT !.command_count = @ + 1, !.last_activity = now]
         IN IF format_fails
            THEN [kind |-> "return", s |-> s1,
                  result |-> FailedResult("format_command failed")]
            ELSE [kind |-> "suspend",
                  s |-> [s1 EXCEPT !.stdin = Append(@, Command \o "\n")],
                  result |-> NoResult]

\* a variant of Session_execute_begin that counts a command only once it
\* has been written to the child
Session_execute_begin_counted_late(s, format_fails) ==
    IF s.status # "running" THEN [kind |-> "raise", s |-> s, result |-> RaisedResult]
    ELSE IF format_fails
    THEN [kind |-> "return", s |-> s,
          result |-> FailedResult("format_command failed")]
    ELSE IF s.process # "alive"
    THEN [kind |-> "return", s |-> s, result |-> FailedResult(SendFailure)]
    ELSE [kind |-> "suspend",
          s |-> [s EXCEPT !.command_count = @ + 1, !.last_activity = now,
                          !.stdin = Append(@, Command \o "\n")],
          result |-> NoResult]

\* a variant of Session_execute_begin without the status check
Session_execute_begin_unchecked(s, format_fails) ==
    LET s1 == [s EXCEPT !.command_count = @ + 1, !.last_activity = now]
    IN IF format_fails
       THEN [kind |-> "return", s |-> s1,
             result |-> FailedResult("format_command failed")]
       ELSE IF s1.process # "alive"
       THEN [kind |-> "return", s |-> s1, result |-> FailedResult(SendFailure)]
       ELSE [kind |-> "suspend",
             s |-> [s1 EXCEPT !.stdin = Append(@, Command \o "\n")],
             result |-> NoResult]

\* the call up to its first suspension: the status check, the counters,
\* format_command, send_input (a write to an exited child fails) and the
\* first pass through the wait loop's time-out check
Session_execute_begin(s, format_fails) ==
    IF s.status # "running" THEN [kind |-> "raise", s |-> s, result |-> RaisedResult]
    ELSE LET s1 == [s EXCEPT !.command_count = @ + 1, !.last_activity = now]
         IN IF format_fails
            THEN [kind |-> "return", s |-> s1,
                  result |-> FailedResult("format_command failed")]
            ELSE IF s1.process # "alive"
            THEN [kind |-> "return", s |-> s1,
                  result |-> FailedResult(SendFailure)]
            ELSE [kind |-> "suspend",
                  s |-> [s1 EXCEPT !.stdin = Append(@, Command \o "\n")],
                  result |-> NoResult]

(* ------------ SessionSpec: execute_command calls on one session -------- *)
\* the session SessionSpec follows
TheSession == 1

\* a caller calls CLIProcessSession.execute_command(Command, timeout)
ExecCall(c, timeout, format_fails) ==
    /\ execs[c].pc = "idle"
    /\ \A d \in 1..(c - 1) : execs[d].pc # "idle"
    /\ LET b == Session_execute_begin(sess[TheSession], format_fails)
       IN /\ sess' = [sess EXCEPT ![TheSession] = b.s]
          /\ execs' = [execs EXCEPT ![c] =
                IF b.kind = "suspend"
                THEN [@ EXCEPT !.pc = "get", !.timeout = timeout,
                               !.start_time = now, !.wait_start = now]
                ELSE [@ EXCEPT !.pc = "done", !.timeout = timeout,
                               !.exit = b.kind, !.result = b.result]]
          /\ ev' = IF b.kind = "suspend" THEN NoEv
                   ELSE IF b.kind = "raise"
                        THEN Raised("execute_command", c, "a1", "RuntimeError")
                        ELSE Returned("execute_command", c, "a1", 0, <<b.result>>)
    /\ UNCHANGED <<agents, wrappers, tasks, batch, now, emitted>>

\* StdioController.execute_command returns raw and the session wraps it
ExecFinish(e, out, err, exit, parse_fails) ==
    [e EXCEPT !.pc = "done", !.output_lines = out, !.error_lines = err,
              !.exit = exit,
              !.result = CommandResultOf([stdout |-> out, stderr |-> err],
                                         parse_fails)]

\* the top of the wait loop: past the time-out the loop raises TimeoutError,
\* which the loop's own except Exception records as an error line;
\* otherwise the call waits for the next queued line
ExecLoop(e, out, err, parse_fails) ==
    IF now - e.start_time > e.timeout
    THEN ExecFinish(e, out, Append(err, TimeoutLine), "timeout", parse_fails)
    ELSE [e EXCEPT !.output_lines = out, !.error_lines = err, !.wait_start = now]

ExecEvent(c, e) ==
    IF e.pc = "done" THEN Returned("execute_command", c, "a1", 0, <<e.result>>) ELSE NoEv

\* a variant of ExecGet that looks at the clock before it asks the adapter
\* whether the command is complete
ExecGet_clock_first(c, parse_fails) ==
    /\ execs[c].pc = "get"
    /\ sess[TheSession].output_buffer # <<>>
    /\ LET item == Head(sess[TheSession].output_buffer)
           e    == execs[c]
           out  == IF item[1] = "stdout" THEN Append(e.output_lines, item[2])
                   ELSE e.output_lines
           err  == IF item[1] \in {"stderr", "error"}
                   THEN Append(e.error_lines, item[2])
                   ELSE e.error_lines
           e1   == IF now - e.start_time > e.timeout
                   THEN ExecFinish(e, out, Append(err, TimeoutLine), "timeout",
                                   parse_fails)
                   ELSE IF is_command_complete(out, err)
                   THEN ExecFinish(e, out, err, "complete", parse_fails)
                   ELSE ExecLoop(e, out, err, parse_fails)
       IN /\ execs' = [execs EXCEPT ![c] = e1]
          /\ ev' = ExecEvent(c, e1)
    /\ sess' = [sess EXCEPT ![TheSession].output_buffer = Tail(@)]
    /\ UNCHANGED <<agents, wrappers, tasks, batch, now, emitted>>

\* a variant of ExecGet that reads the head of the queue and leaves it there
ExecGet_peek(c, parse_fails) ==
    /\ execs[c].pc = "get"
    /\ sess[TheSession].output_buffer # <<>>
    /\ LET item == Head(sess[TheSession].output_buffer)
           e    == execs[c]
           out  == IF item[1] = "stdout" THEN Append(e.output_lines, item[2])
                   ELSE e.output_lines
           err  == IF item[1] \in {"stderr", "error"}
                   THEN Append(e.error_lines, item[2])
                   ELSE e.error_lines
           e1   == IF is_command_complete(out, err)
                   THEN ExecFinish(e, out, err, "complete", parse_fails)
                   ELSE ExecLoop(e, out, err, parse_fails)
       IN /\ execs' = [execs EXCEPT ![c] = e1]
          /\ ev' = ExecEvent(c, e1)
    /\ UNCHANGED <<agents, wrappers, sess, tasks, batch, now, emitted>>

\* output_buffer.get() hands the call a queued line
ExecGet(c, parse_fails) ==
    /\ execs[c].pc = "get"
    /\ sess[TheSession].output_buffer # <<>>
    /\ LET item == Head(sess[TheSession].output_buffer)
           e    == execs[c]
           out  == IF item[1] = "stdout" THEN Append(e.output_lines, item[2])
                   ELSE e.output_lines
           err  == IF item[1] \in {"stderr", "error"}
                   THEN Append(e.error_lines, item[2])
                   ELSE e.error_lines
           e1   == IF is_command_complete(out, err)
                   THEN ExecFinish(e, out, err, "complete", parse_fails)
                   ELSE ExecLoop(e, out, err, parse_fails)
       IN /\ execs' = [execs EXCEPT ![c] = e1]
          /\ ev' = ExecEvent(c, e1)
    /\ sess' = [sess EXCEPT ![TheSession].output_buffer = Tail(@)]
    /\ UNCHANGED <<agents, wrappers, tasks, batch, now, emitted>>

\* a variant of ExecPoll without the liveness check: a call whose wait for a
\* line ran out goes back to the top of its loop, whatever became of the child
ExecPoll_no_liveness_check(c, parse_fails) ==
    /\ execs[c].pc = "get"
    /\ sess[TheSession].output_buffer = <<>>
    /\ now - execs[c].wait_start >= PollTimeout
    /\ LET e  == execs[c]
           e1 == ExecLoop(e, e.output_lines, e.error_lines, parse_fails)
       IN /\ execs' = [execs EXCEPT ![c] = e1]
          /\ ev' = ExecEvent(c, e1)
    /\ UNCHANGED <<agents, wrappers, sess, tasks, batch, now, emitted>>

\* a variant of ExecPoll in which a call that times out takes the session
\* down with it: the child is killed
ExecPoll_kill(c, parse_fails) ==
    /\ execs[c].pc = "get"
    /\ sess[TheSession].output_buffer = <<>>
    /\ now - execs[c].wait_start >= PollTimeout
    /\ LET e  == execs[c]
           e1 == IF sess[TheSession].process # "alive"
                 THEN ExecFinish(e, e.output_lines, e.error_lines, "exited",
                                 parse_fails)
                 ELSE ExecLoop(e, e.output_lines, e.error_lines, parse_fails)
       IN /\ execs' = [execs EXCEPT ![c] = e1]
          /\ ev' = ExecEvent(c, e1)
          /\ sess' = IF e1.exit = "timeout"
                     THEN [sess EXCEPT ![TheSession].process = "exited"]
                     ELSE sess
    /\ UNCHANGED <<agents, wrappers, tasks, batch, now, emitted>>

\* no line came within PollTimeout: the call looks whether the child lives
ExecPoll(c, parse_fails) ==
    /\ execs[c].pc = "get"
    /\ sess[TheSession].output_buffer = <<>>
    /\ now - execs[c].wait_start >= PollTimeout
    /\ LET e  == execs[c]
           e1 == IF sess[TheSession].process # "alive"
                 THEN ExecFinish(e, e.output_lines, e.error_lines, "exited",
                                 parse_fails)
                 ELSE ExecLoop(e, e.output_lines, e.error_lines, parse_fails)
       IN /\ execs' = [execs EXCEPT ![c] = e1]
          /\ ev' = ExecEvent(c, e1)
    /\ UNCHANGED <<agents, wrappers, sess, tasks, batch, now, emitted>>

MaxTasks == 2

SessionInit ==
    /\ agents = [a \in {"a1"} |-> 1]
    /\ wrappers = <<[agent_id |-> "a1", sessions |-> <<TheSession>>]>>
    /\ sess = <<[StartedSession("a1", 0) EXCEPT
                    !.output_task = "reading", !.error_task = "reading"]>>
    /\ execs = [c \in 1..MaxCalls |-> IdleExec]
    /\ tasks = [t \in 1..MaxTasks |-> IdleTask]
    /\ batch = NoBatch
    /\ now = 0
    /\ emitted = 0
    /\ ev = NoEv

SessionNext ==
    \/ \E stream \in {"stdout", "stderr"} : \E line \in RawLines(stream) :
          ProcEmit(TheSession, stream, line)
    \/ ProcExit(TheSession)
    \/ Tick
    \/ \E stream \in {"stdout", "stderr"} : ReaderRead(TheSession, stream)
    \/ \E stream \in {"stdout", "stderr"} : ReaderEOF(TheSession, stream)
    \/ \E c \in 1..MaxCalls, timeout \in Timeouts, format_fails \in BOOLEAN :
          ExecCall(c, timeout, format_fails)
    \/ \E c \in 1..MaxCalls, parse_fails \in BOOLEAN : ExecGet(c, parse_fails)
    \/ \E c \in 1..MaxCalls, parse_fails \in BOOLEAN : ExecPoll(c, parse_fails)

SessionSpec == SessionInit /\ [][SessionNext]_vars

(* ----------------------- claims under SessionSpec ---------------------- *)
\* the calls that have returned a CommandResult the adapter parsed
Parsed(c) ==
    /\ execs[c].pc = "done"
    /\ execs[c].result.outcome = "returned"
    /\ execs[c].result.parsed.error # ParseFailure

\* C1: a call whose wait loop ended by the time-out (the adapter never
\* reported completion and the child stayed alive) returns a CommandResult
\* with success = false and an error text that indicates a timeout.
C1_TimeoutIsFailure ==
    \A c \in DOMAIN execs :
        (Parsed(c) /\ execs[c].exit = "timeout")
        => /\ ~execs[c].result.success
           /\ contains(execs[c].result.parsed.error, "timeout")

\* C2: a call whose captured lines include a stderr line or a reader-exception
\* line returns a CommandResult with success = false and a non-empty error
\* string.
C2_ErrorLinesAreFailure ==
    \A c \in DOMAIN execs :
        (Parsed(c) /\ \E i \in DOMAIN execs[c].error_lines :
                          execs[c].error_lines[i] # TimeoutLine)
        => /\ ~execs[c].result.success
           /\ Len(execs[c].result.parsed.error) > 0

\* C3: the session of SessionSpec is running throughout, and no
\* execute_command call on it raises to its caller: every finished call holds
\* a CommandResult, whether format_command, the write to the child's stdin,
\* the wait or parse_result failed.
C3_NeverRaises ==
    /\ sess[TheSession].status = "running"
    /\ ~(ev.op = "execute_command" /\ ev.kind = "raise")
    /\ \A c \in DOMAIN execs :
          execs[c].pc = "done" => execs[c].result.outcome = "returned"

\* a call wrote to the stdin of a child that had exited and still returned
C3_Witness ==
    \E c \in DOMAIN execs :
        /\ execs[c].pc = "done"
        /\ sess[TheSession].process = "exited"
        /\ execs[c].result.outcome = "returned"
        /\ execs[c].result.parsed.error = SendFailure

\* C11: calls on one session are serialized: a call's input is written to
\* the child only when no earlier call on the session is still waiting for
\* its output.
C11_CallsSerialized ==
    [][Len(sess'[TheSession].stdin) > Len(sess[TheSession].stdin)
       => \A c \in DOMAIN execs : execs[c].pc # "get"]_vars

\* the lines call c has taken from the queue (the line the wait loop records
\* for its own time-out is not one of them)
Taken(c) ==
    Len(execs[c].output_lines)
    + Cardinality({i \in DOMAIN execs[c].error_lines :
                      execs[c].error_lines[i] # TimeoutLine})

RECURSIVE TakenUpTo(_)
TakenUpTo(c) == IF c = 0 THEN 0 ELSE Taken(c) + TakenUpTo(c - 1)

\* C12: no line of the session's queue is in the results of two calls: the
\* lines the calls hold, the lines still queued and the lines still in the
\* pipes are together no more than the lines the child wrote.
C12_NoLineTwice ==
    TakenUpTo(MaxCalls) + Len(sess[TheSession].output_buffer)
        + Len(sess[TheSession].stdout) + Len(sess[TheSession].stderr)
    <= emitted

\* two finished calls on the session, each of which took a line
C12_Witness ==
    \E c, d \in DOMAIN execs :
        /\ c # d
        /\ execs[c].pc = "done" /\ Taken(c) > 0
        /\ execs[d].pc = "done" /\ Taken(d) > 0

C26_TimeoutEndsOnlyTheCall ==
    [][/\ \A c \in DOMAIN execs :
             (execs[c].pc = "get" /\ execs'[c].exit = "timeout")
             => /\ sess'[TheSession].status = "running"
                /\ sess'[TheSession] =
                      [sess[TheSession] EXCEPT
                          !.output_buffer = sess'[TheSession].output_buffer]
                /\ \A d \in DOMAIN execs \ {c} : execs'[d] = execs[d]
       /\ \A d \in DOMAIN execs :
             (/\ execs[d].pc = "idle"
              /\ execs'[d].pc # "idle"
              /\ \E c \in DOMAIN execs : execs[c].exit = "timeout")
             => /\ ev'.kind # "raise"
                /\ sess'[TheSession].command_count
                      = sess[TheSession].command_count + 1]_vars

\* after a call timed out, the child lives, both readers read and a later
\* call waits for its output
C26_Witness ==
    \E c, d \in DOMAIN execs :
        /\ execs[c].pc = "done"
        /\ execs[c].exit = "timeout"
        /\ execs[d].pc = "get"
        /\ execs[d].start_time - execs[c].start_time > execs[c].timeout
        /\ sess[TheSession].status = "running"
        /\ sess[TheSession].process = "alive"
        /\ sess[TheSession].output_task = "reading"
        /\ sess[TheSession].error_task = "reading"

\* C29: a session whose status is RUNNING and whose child lives has its two
\* reader tasks running.
C29_RunningHasTwoReaders ==
    (sess[TheSession].status = "running" /\ sess[TheSession].process = "alive")
    => /\ sess[TheSession].output_task = "reading"
       /\ sess[TheSession].error_task = "reading"

\* C31: when a call's wait for a line runs out (PollTimeout without a
\* queued line) and the child has exited, the call leaves its loop in that
\* step, whether or not its own time-out has passed, and returns the lines
\* it had collected, with no time-out recorded.
C31_ExitEndsTheWait ==
    [][\A c \in DOMAIN execs, parse_fails \in BOOLEAN :
          (sess[TheSession].process = "exited" /\ ExecPoll(c, parse_fails))
          => /\ execs'[c].pc = "done"
             /\ execs'[c].exit = "exited"
             /\ execs'[c].output_lines = execs[c].output_lines
             /\ execs'[c].error_lines = execs[c].error_lines
             /\ execs'[c].result =
                   CommandResultOf([stdout |-> execs[c].output_lines,
                                    stderr |-> execs[c].error_lines],
                                   parse_fails)
             /\ ev'.op = "execute_command"
             /\ ev'.kind = "return"]_vars

\* a call with a time-out of a second that had taken a line returned it a
\* second after its start, the child having exited
C31_Witness ==
    \E c \in DOMAIN execs :
        /\ execs[c].pc = "done"
        /\ execs[c].exit = "exited"
        /\ execs[c].output_lines = <<"ok">>
        /\ execs[c].timeout = 1
        /\ now - execs[c].start_time = 1
        /\ ev.op = "execute_command"
        /\ ev.who = c

\* C35: with no terminate(), a reader does not end while lines the child
\* wrote are unread in its stream: once the child has exited and a reader
\* has ended, its stream is empty (every line went to the queue).
C35_ReaderDrainsItsStream ==
    \A stream \in {"stdout", "stderr"} :
        (/\ ~sess[TheSession].cancelled
         /\ sess[TheSession].process = "exited"
         /\ sess[TheSession][ReaderTask(stream)] = "done")
        => sess[TheSession][stream] = <<>>

(* ------------------ CLIProcessSession.start / terminate ---------------- *)
\* start() up to `await self.adapter.wait_for_ready(...)`: the child is
\* spawned, the controller built and its two reader tasks created.  The
\* status is not touched: it is still the STOPPED of __init__.
Spawned(s) ==
    [s EXCEPT !.process = "alive", !.stdio = TRUE, !.running = TRUE,
              !.output_task = "new", !.error_task = "new"]

Pending(task_state) == task_state \in {"new", "reading", "cancelling"}

\* the end of terminate(): the child has been waited for
Terminated(s) == [s EXCEPT !.status = "stopped"]

\* a variant of Terminate_process that returns early, before the status is
\* set, when there is no live child to wait for
Terminate_process_early(s) ==
    IF s.process = "alive" THEN [s |-> s, pc |-> "wait"]
    ELSE [s |-> s, pc |-> "return"]

\* terminate() from `if self.process:` on: SIGTERM and the wait for the exit
\* (a suspension), or nothing at all when no process was ever spawned
Terminate_process(s) ==
    IF s.process # "none" THEN [s |-> s, pc |-> "wait"]
    ELSE [s |-> Terminated(s), pc |-> "return"]

\* StdioController.stop() from `if self.error_task:` on
Stop_error_task(s) ==
    IF s.stdio /\ Pending(s.error_task)
    THEN [s |-> [s EXCEPT !.error_task = "cancelling"], pc |-> "stop_error"]
    ELSE Terminate_process(s)

\* StdioController.stop() from `if self.output_task:` on: a task that is
\* still pending is cancelled and awaited (a suspension), a finished one is
\* passed over
Stop_output_task(s) ==
    IF s.stdio /\ Pending(s.output_task)
    THEN [s |-> [s EXCEPT !.output_task = "cancelling"], pc |-> "stop_output"]
    ELSE Stop_error_task(s)

\* terminate() up to its first suspension
Session_terminate_begin(s) ==
    Stop_output_task([s EXCEPT !.cancelled = TRUE, !.status = "stopping",
                               !.running = IF s.stdio THEN FALSE ELSE @])

\* a cancelled reader task runs once more, ends with CancelledError and
\* wakes the stop() that awaits it
Cancelled(task_state) ==
    IF task_state = "cancelling" THEN "cancelled" ELSE task_state

(* ------------------------- CLIAgentManager ----------------------------- *)
Range(seq) == {seq[i] : i \in DOMAIN seq}
Remove(seq, x) == SelectSeq(seq, LAMBDA y : y # x)

\* a new call takes the lowest free task slot
FreeSlot(t) ==
    /\ tasks[t].op = "idle"
    /\ \A u \in 1..(t - 1) : tasks[u].op # "idle"

\* a variant of Manager_register_agent that falls back to the generic
\* adapter when the adapter name is not in the table
Manager_register_agent_fallback(agent_id, adapter_name) ==
    /\ Len(wrappers) < MaxWrappers
    /\ wrappers' = Append(wrappers, [agent_id |-> agent_id, sessions |-> <<>>])
    /\ agents' = [a \in DOMAIN agents \cup {agent_id} |->
                     IF a = agent_id THEN Len(wrappers) + 1 ELSE agents[a]]
    /\ ev' = Returned("register_agent", 0, agent_id, 0, <<>>)
    /\ UNCHANGED <<sess, execs, tasks, batch, now, emitted>>

\* CLIAgentManager.register_agent: no await of it suspends
Manager_register_agent(agent_id, adapter_name) ==
    /\ IF adapter_name \notin AdapterTable
       THEN /\ ev' = Raised("register_agent", 0, agent_id, "ValueError")
            /\ UNCHANGED <<agents, wrappers>>
       ELSE /\ Len(wrappers) < MaxWrappers
            /\ wrappers' = Append(wrappers,
                                  [agent_id |-> agent_id, sessions |-> <<>>])
            /\ agents' = [a \in DOMAIN agents \cup {agent_id} |->
                             IF a = agent_id THEN Len(wrappers) + 1
                             ELSE agents[a]]
            /\ ev' = Returned("register_agent", 0, agent_id, 0, <<>>)
    /\ UNCHANGED <<sess, execs, tasks, batch, now, emitted>>

\* a variant of Manager_create_session that stores the session in the
\* agent's mapping before it starts it
Manager_create_session_stored_first(t, agent_id, spawn_fails) ==
    /\ FreeSlot(t)
    /\ IF agent_id \notin DOMAIN agents
       THEN /\ ev' = Raised("create_session", t, agent_id, "ValueError")
            /\ UNCHANGED <<sess, tasks, wrappers>>
       ELSE /\ Len(sess) < MaxSessions
            /\ wrappers' = [wrappers EXCEPT ![agents[agent_id]].sessions =
                                Append(@, Len(sess) + 1)]
            /\ IF spawn_fails
               THEN /\ sess' = Append(sess, [NewSession(agent_id, now) EXCEPT
                                                !.status = "error"])
                    /\ ev' = Raised("create_session", t, agent_id, "RuntimeError")
                    /\ UNCHANGED tasks
               ELSE /\ sess' = Append(sess, Spawned(NewSession(agent_id, now)))
                    /\ tasks' = [tasks EXCEPT ![t] =
                          [IdleTask EXCEPT !.op = "create_session",
                              !.pc = "wait_for_ready", !.aid = agent_id,
                              !.obj = agents[agent_id], !.sid = Len(sess) + 1]]
                    /\ ev' = NoEv
    /\ UNCHANGED <<agents, execs, batch, now, emitted>>

\* CLIAgentManager.create_session -> CLIAgentWrapper.new_session ->
\* CLIProcessSession.start, up to the wait for readiness.  spawn_fails: Popen
\* raises (no such program, say).
Manager_create_session(t, agent_id, spawn_fails) ==
    /\ FreeSlot(t)
    /\ IF agent_id \notin DOMAIN agents
       THEN /\ ev' = Raised("create_session", t, agent_id, "ValueError")
            /\ UNCHANGED <<sess, tasks>>
       ELSE /\ Len(sess) < MaxSessions
            /\ IF spawn_fails
               THEN /\ sess' = Append(sess, [NewSession(agent_id, now) EXCEPT
                                                !.status = "error"])
                    /\ ev' = Raised("create_session", t, agent_id, "RuntimeError")
                    /\ UNCHANGED tasks
               ELSE /\ sess' = Append(sess, Spawned(NewSession(agent_id, now)))
                    /\ tasks' = [tasks EXCEPT ![t] =
                          [IdleTask EXCEPT !.op = "create_session",
                              !.pc = "wait_for_ready", !.aid = agent_id,
                              !.obj = agents[agent_id], !.sid = Len(sess) + 1]]
                    /\ ev' = NoEv
    /\ UNCHANGED <<agents, wrappers, execs, batch, now, emitted>>

\* a variant of Session_start_ready in which a failed wait for readiness is
\* raised on without the status being set
Session_start_ready_status_kept(t, ready_fails) ==
    /\ tasks[t].op = "create_session"
    /\ tasks[t].pc = "wait_for_ready"
    /\ sess[tasks[t].sid].output_task # "new"
    /\ LET sid == tasks[t].sid
           obj == tasks[t].obj
       IN IF ready_fails
          THEN /\ ev' = Raised("create_session", t, tasks[t].aid, "RuntimeError")
               /\ UNCHANGED <<sess, wrappers>>
          ELSE /\ sess' = [sess EXCEPT ![sid].status = "running",
                                       ![sid].last_activity = now]
               /\ wrappers' = [wrappers EXCEPT ![obj].sessions = Append(@, sid)]
               /\ ev' = Returned("create_session", t, tasks[t].aid, sid, <<>>)
    /\ tasks' = [tasks EXCEPT ![t] = IdleTask]
    /\ UNCHANGED <<agents, execs, batch, now, emitted>>

\* a variant of Session_start_ready in which start() swallows the failure of
\* the wait for readiness: the session is stored and its id returned all the
\* same
Session_start_ready_swallowed(t, ready_fails) ==
    /\ tasks[t].op = "create_session"
    /\ tasks[t].pc = "wait_for_ready"
    /\ sess[tasks[t].sid].output_task # "new"
    /\ LET sid == tasks[t].sid
           obj == tasks[t].obj
       IN /\ sess' = IF ready_fails
                     THEN [sess EXCEPT ![sid].status = "error"]
                     ELSE [sess EXCEPT ![sid].status = "running",
                                       ![sid].last_activity = now]
          /\ wrappers' = [wrappers EXCEPT ![obj].sessions = Append(@, sid)]
          /\ ev' = Returned("create_session", t, tasks[t].aid, sid, <<>>)
    /\ tasks' = [tasks EXCEPT ![t] = IdleTask]
    /\ UNCHANGED <<agents, execs, batch, now, emitted>>

\* start() after wait_for_ready, and the rest of new_session: the status
\* becomes RUNNING, the session is stored and its id returned; or the wait
\* raised, the status becomes ERROR and the wrapped failure is raised
Session_start_ready(t, ready_fails) ==
    /\ tasks[t].op = "create_session"
    /\ tasks[t].pc = "wait_for_ready"
    /\ sess[tasks[t].sid].output_task # "new"
    /\ LET sid == tasks[t].sid
           obj == tasks[t].obj
       IN IF ready_fails
          THEN /\ sess' = [sess EXCEPT ![sid].status = "error"]
               /\ ev' = Raised("create_session", t, tasks[t].aid, "RuntimeError")
               /\ UNCHANGED wrappers
          ELSE /\ sess' = [sess EXCEPT ![sid].status = "running",
                                       ![sid].last_activity = now]
               /\ wrappers' = [wrappers EXCEPT ![obj].sessions = Append(@, sid)]
               /\ ev' = Returned("create_session", t, tasks[t].aid, sid, <<>>)
    /\ tasks' = [tasks EXCEPT ![t] = IdleTask]
    /\ UNCHANGED <<agents, execs, batch, now, emitted>>

\* the for loop of terminate_agent, from its head to the next suspension:
\* terminate_session passes over a key the agent no longer holds; after the
\* last key the agent is deleted from the registry (KeyError when it is no
\* longer there)
RECURSIVE Terminate_loop(_, _, _, _, _)
Terminate_loop(t, task, A, W, S) ==
    IF task.keys = <<>>
    THEN [agents |-> [a \in DOMAIN A \ {task.aid} |-> A[a]],
          wrappers |-> W, sess |-> S, task |-> IdleTask,
          ev |-> IF task.aid \in DOMAIN A
                 THEN Returned("terminate_agent", t, task.aid, 0, <<>>)
                 ELSE Raised("terminate_agent", t, task.aid, "KeyError")]
    ELSE LET sid  == Head(task.keys)
             rest == [task EXCEPT !.keys = Tail(@), !.sid = sid]
         IN IF sid \notin Range(W[task.obj].sessions)
            THEN Terminate_loop(t, rest, A, W, S)
            ELSE LET b  == Session_terminate_begin(S[sid])
                     S1 == [S EXCEPT ![sid] = b.s]
                 IN IF b.pc = "return"
                    THEN Terminate_loop(t, rest, A,
                            [W EXCEPT ![task.obj].sessions = Remove(@, sid)], S1)
                    ELSE [agents |-> A, wrappers |-> W, sess |-> S1,
                          task |-> [rest EXCEPT !.pc = b.pc], ev |-> NoEv]

\* terminate() of task t's session went on to r (its session and where it
\* is); once it has returned, terminate_session deletes the session from the
\* agent (KeyError when it is no longer there) and the loop goes on
Terminate_continue(t, r) ==
    LET task == tasks[t]
        S1   == [sess EXCEPT ![task.sid] = r.s]
    IN IF r.pc # "return"
       THEN [agents |-> agents, wrappers |-> wrappers, sess |-> S1,
             task |-> [task EXCEPT !.pc = r.pc], ev |-> NoEv]
       ELSE IF task.sid \notin Range(wrappers[task.obj].sessions)
       THEN [agents |-> agents, wrappers |-> wrappers, sess |-> S1,
             task |-> IdleTask,
             ev |-> Raised("terminate_agent", t, task.aid, "KeyError")]
       ELSE Terminate_loop(t, task, agents,
               [wrappers EXCEPT ![task.obj].sessions = Remove(@, task.sid)], S1)

Apply(t, n) ==
    /\ agents' = n.agents
    /\ wrappers' = n.wrappers
    /\ sess' = n.sess
    /\ tasks' = [tasks EXCEPT ![t] = n.task]
    /\ ev' = n.ev
    /\ UNCHANGED <<execs, batch, now, emitted>>

\* CLIAgentManager.terminate_agent, up to its first suspension; for an
\* agent id that is not registered it returns without doing anything
Manager_terminate_agent(t, agent_id) ==
    /\ FreeSlot(t)
    /\ IF agent_id \notin DOMAIN agents
       THEN /\ ev' = Returned("terminate_agent", t, agent_id, 0, <<>>)
            /\ UNCHANGED <<agents, wrappers, sess, execs, tasks, batch, now, emitted>>
       ELSE Apply(t, Terminate_loop(t,
                [IdleTask EXCEPT !.op = "terminate_agent", !.aid = agent_id,
                    !.obj = agents[agent_id],
                    !.keys = wrappers[agents[agent_id]].sessions],
                agents, wrappers, sess))

\* stop(): the reader task it cancelled and awaits has ended, and stop()
\* goes on
Terminate_stopped(t) ==
    /\ tasks[t].op = "terminate_agent"
    /\ tasks[t].pc \in {"stop_output", "stop_error"}
    /\ LET s == sess[tasks[t].sid]
       IN IF tasks[t].pc = "stop_output"
          THEN Apply(t, Terminate_continue(t,
                  Stop_error_task([s EXCEPT !.output_task = Cancelled(@)])))
          ELSE Apply(t, Terminate_continue(t,
                  Terminate_process([s EXCEPT !.error_task = Cancelled(@)])))

\* process.terminate() and the wait of at most 5 seconds: the child exits
\* (or had exited), or the wait times out and the child is killed
Terminate_wait(t, graceful) ==
    /\ tasks[t].op = "terminate_agent"
    /\ tasks[t].pc = "wait"
    /\ LET s == sess[tasks[t].sid]
       IN IF graceful \/ s.process = "exited"
          THEN Apply(t, Terminate_continue(t,
                  [s |-> Terminated([s EXCEPT !.process = "exited"]),
                   pc |-> "return"]))
          ELSE Apply(t, Terminate_continue(t, [s |-> s, pc |-> "kill_wait"]))

\* process.kill() and the wait for the exit
Terminate_killed(t) ==
    /\ tasks[t].op = "terminate_agent"
    /\ tasks[t].pc = "kill_wait"
    /\ LET s == sess[tasks[t].sid]
       IN Apply(t, Terminate_continue(t,
             [s |-> Terminated([s EXCEPT !.process = "exited"]),
              pc |-> "return"]))

Init ==
    /\ agents = <<>>
    /\ wrappers = <<>>
    /\ sess = <<>>
    /\ execs = [c \in 1..MaxCalls |-> IdleExec]
    /\ tasks = [t \in 1..MaxTasks |-> IdleTask]
    /\ batch = NoBatch
    /\ now = 0
    /\ emitted = 0
    /\ ev = NoEv

Next ==
    \/ \E a \in AgentIds, n \in AdapterNames : Manager_register_agent(a, n)
    \/ \E t \in 1..MaxTasks, a \in AgentIds, spawn_fails \in BOOLEAN :
          Manager_create_session(t, a, spawn_fails)
    \/ \E t \in 1..MaxTasks, ready_fails \in BOOLEAN :
          Session_start_ready(t, ready_fails)
    \/ \E t \in 1..MaxTasks, a \in AgentIds : Manager_terminate_agent(t, a)
    \/ \E t \in 1..MaxTasks : Terminate_stopped(t)
    \/ \E t \in 1..MaxTasks, graceful \in BOOLEAN : Terminate_wait(t, graceful)
    \/ \E t \in 1..MaxTasks : Terminate_killed(t)
    \/ \E s \in DOMAIN sess : ProcExit(s)
    \/ \E s \in DOMAIN sess : ReadersStart(s)

Spec == Init /\ [][Next]_vars

(* ------------------ registration and session creation ------------------ *)
\* C4: register_agent for an agent id that is already registered fails, and
\* leaves the registry, the registered agent and its sessions as they were.
C4_DuplicateRegistrationFails ==
    [][\A a \in DOMAIN agents :
          (ev'.op = "register_agent" /\ ev'.aid = a)
          => /\ ev'.kind = "raise"
             /\ agents' = agents
             /\ wrappers' = wrappers
             /\ sess' = sess]_vars

\* C5: when create_session returns a session id, that session is stored in
\* the session mapping of the agent it was created for and its status is
\* RUNNING.
C5_ReturnedSessionIsRunning ==
    (ev.op = "create_session" /\ ev.kind = "return")
    => /\ ev.val \in DOMAIN sess
       /\ sess[ev.val].status = "running"
       /\ \E w \in DOMAIN wrappers :
             /\ wrappers[w].agent_id = ev.aid
             /\ ev.val \in Range(wrappers[w].sessions)

\* create_session returned the id of a session whose readers run
C5_Witness ==
    /\ ev.op = "create_session"
    /\ ev.kind = "return"
    /\ sess[ev.val].status = "running"
    /\ sess[ev.val].output_task = "reading"

\* C6: a step in which the start of a session fails raises to the caller of
\* create_session, returns no id, and leaves every agent's session mapping
\* as it was, without the failed session in it.
C6_FailedStartNotRegistered ==
    [][\A s \in DOMAIN sess' :
          (sess'[s].status = "error"
              /\ (s \in DOMAIN sess => sess[s].status # "error"))
          => /\ ev'.op = "create_session"
             /\ ev'.kind = "raise"
             /\ wrappers' = wrappers
             /\ \A w \in DOMAIN wrappers' :
                   s \notin Range(wrappers'[w].sessions)]_vars

\* create_session raised after the child was spawned, for an agent that
\* holds another session
C6_Witness ==
    /\ ev.op = "create_session"
    /\ ev.kind = "raise"
    /\ ev.err = "RuntimeError"
    /\ \E s \in DOMAIN sess :
          /\ sess[s].status = "error"
          /\ sess[s].process # "none"
          /\ sess[s].agent_id = ev.aid
    /\ \E w \in DOMAIN wrappers :
          wrappers[w].agent_id = ev.aid /\ wrappers[w].sessions # <<>>


(* ------------- execute_parallel / execute_sequential ------------------- *)
\* a session id no agent holds
UnknownSession == 3

\* the cmd_info dictionaries a batch is made of
CmdInfos ==
    {[agent_id |-> "a1", session_id |-> sid, stop_on_error |-> stop] :
        sid \in {1, 2, UnknownSession}, stop \in BOOLEAN}
    \cup {[agent_id |-> "a2", session_id |-> 1, stop_on_error |-> stop] :
        stop \in BOOLEAN}

Batches == UNION {[1..n -> CmdInfos] : n \in 1..MaxBatch}

\* what StdioController.execute_command may hand back once it has waited:
\* the prompt came, or the wait timed out
RawResults ==
    {[stdout |-> <<"ok", "$ ">>, stderr |-> <<>>],
     [stdout |-> <<>>, stderr |-> <<TimeoutLine>>]}

\* a variant of Agent_execute_begin that looks the session up among all
\* the sessions there are, not among the agent's own
Agent_execute_begin_any_owner(obj, sid, S) ==
    IF sid \notin DOMAIN S
    THEN [kind |-> "raise", s |-> <<>>, result |-> RaisedResult]
    ELSE Session_execute_begin(S[sid], FALSE)

\* CLIAgentWrapper.execute_command up to its first suspension, on sessions S
Agent_execute_begin(obj, sid, S) ==
    IF sid \notin Range(wrappers[obj].sessions)
    THEN [kind |-> "raise", s |-> <<>>, result |-> RaisedResult]
    ELSE Session_execute_begin(S[sid], FALSE)

\* str(e) of the exception CLIAgentWrapper.execute_command raises at once
ExceptionText(obj, sid, S) ==
    IF sid \notin Range(wrappers[obj].sessions)
    THEN "Session not found"
    ELSE "Session not running, status: " \o S[sid].status

Item(index, obj, sid, x) ==
    [index |-> index, obj |-> obj, sid |-> sid,
     pc |-> IF x.kind = "suspend" THEN "waiting" ELSE "done",
     result |-> x.result]

\* execute_parallel: a coroutine for every item whose agent is registered,
\* all handed to asyncio.gather
RECURSIVE Launch(_, _)
Launch(commands, i) ==
    IF i > Len(commands) THEN <<>>
    ELSE IF commands[i].agent_id \in DOMAIN agents
    THEN <<[index |-> i, obj |-> agents[commands[i].agent_id],
            sid |-> commands[i].session_id, pc |-> "new",
            result |-> NoResult]>> \o Launch(commands, i + 1)
    ELSE Launch(commands, i + 1)

Manager_execute_parallel(commands) ==
    /\ batch.kind = "none"
    /\ batch' = [NoBatch EXCEPT !.kind = "parallel", !.pc = "running",
                    !.commands = commands, !.items = Launch(commands, 1)]
    /\ ev' = NoEv
    /\ UNCHANGED <<agents, wrappers, sess, execs, tasks, now, emitted>>

\* a gathered task runs for the first time (the tasks start in list order)
Item_start(j) ==
    /\ batch.kind = "parallel"
    /\ j \in DOMAIN batch.items
    /\ batch.items[j].pc = "new"
    /\ \A k \in 1..(j - 1) : batch.items[k].pc # "new"
    /\ LET it == batch.items[j]
           x  == Agent_execute_begin(it.obj, it.sid, sess)
       IN /\ batch' = [batch EXCEPT !.items[j] = Item(it.index, it.obj, it.sid, x)]
          /\ sess' = IF x.kind = "raise" THEN sess
                     ELSE [sess EXCEPT ![it.sid] = x.s]
    /\ ev' = NoEv
    /\ UNCHANGED <<agents, wrappers, execs, tasks, now, emitted>>

\* a gathered task's wait for output ends and it returns its CommandResult
Item_finish(j, raw, parse_fails) ==
    /\ batch.kind = "parallel"
    /\ j \in DOMAIN batch.items
    /\ batch.items[j].pc = "waiting"
    /\ batch' = [batch EXCEPT !.items[j].pc = "done",
                    !.items[j].result = CommandResultOf(raw, parse_fails)]
    /\ ev' = NoEv
    /\ UNCHANGED <<agents, wrappers, sess, execs, tasks, now, emitted>>

\* a variant of Parallel_done for a gather without return_exceptions: the
\* first exception ends the wait
Parallel_done_first_exception ==
    \/ \A j \in DOMAIN batch.items : batch.items[j].pc = "done"
    \/ \E j \in DOMAIN batch.items : batch.items[j].result.outcome = "raised"

\* gather(*tasks, return_exceptions=True) is done when every task is
Parallel_done == \A j \in DOMAIN batch.items : batch.items[j].pc = "done"

\* gather returns the tasks' outcomes, exceptions included, in task order
Parallel_return ==
    /\ batch.kind = "parallel"
    /\ batch.pc = "running"
    /\ Parallel_done
    /\ batch' = [batch EXCEPT !.pc = "returned",
                    !.results = [j \in DOMAIN batch.items |->
                                    [item |-> batch.items[j].index,
                                     r |-> batch.items[j].result]]]
    /\ ev' = Returned("execute_parallel", 0, "", 0, batch'.results)
    /\ UNCHANGED <<agents, wrappers, sess, execs, tasks, now, emitted>>

\* execute_sequential's loop from item i to its next suspension or its
\* return.  An item whose agent is not registered is passed over; an
\* exception out of execute_command becomes a failed CommandResult.
RECURSIVE Sequential_loop(_, _, _)
RECURSIVE Sequential_result(_, _, _, _)
\* a variant of Sequential_loop that does not await the item it began
Sequential_loop_no_await(b, i, S) ==
    IF i > Len(b.commands)
    THEN [batch |-> [b EXCEPT !.pc = "returned", !.i = i], sess |-> S]
    ELSE LET cmd == b.commands[i] IN
         IF cmd.agent_id \notin DOMAIN agents
         THEN Sequential_loop(b, i + 1, S)
         ELSE LET obj == agents[cmd.agent_id]
                  x   == Agent_execute_begin(obj, cmd.session_id, S)
                  b1  == [b EXCEPT !.i = i, !.items =
                            Append(@, Item(i, obj, cmd.session_id, x))]
              IN IF x.kind = "raise"
                 THEN Sequential_result(b1, i,
                          FailedResult(ExceptionText(obj, cmd.session_id, S)), S)
                 ELSE IF x.kind = "return"
                 THEN Sequential_result(b1, i, x.result,
                          [S EXCEPT ![cmd.session_id] = x.s])
                 ELSE Sequential_loop(b1, i + 1,
                          [S EXCEPT ![cmd.session_id] = x.s])

Sequential_loop(b, i, S) ==
    IF i > Len(b.commands)
    THEN [batch |-> [b EXCEPT !.pc = "returned", !.i = i], sess |-> S]
    ELSE LET cmd == b.commands[i] IN
         IF cmd.agent_id \notin DOMAIN agents
         THEN Sequential_loop(b, i + 1, S)
         ELSE LET obj == agents[cmd.agent_id]
                  x   == Agent_execute_begin(obj, cmd.session_id, S)
                  b1  == [b EXCEPT !.i = i, !.items =
                            Append(@, Item(i, obj, cmd.session_id, x))]
              IN IF x.kind = "raise"
                 THEN Sequential_result(b1, i,
                          FailedResult(ExceptionText(obj, cmd.session_id, S)), S)
                 ELSE IF x.kind = "return"
                 THEN Sequential_result(b1, i, x.result,
                          [S EXCEPT ![cmd.session_id] = x.s])
                 ELSE [batch |-> b1, sess |-> [S EXCEPT ![cmd.session_id] = x.s]]

\* results.append(result), then the stop_on_error test
Sequential_result(b, i, result, S) ==
    LET b1 == [b EXCEPT !.results = Append(@, [item |-> i, r |-> result])]
    IN IF ~result.success /\ b.commands[i].stop_on_error
       THEN [batch |-> [b1 EXCEPT !.pc = "returned"], sess |-> S]
       ELSE Sequential_loop(b1, i + 1, S)

Sequential_apply(r) ==
    /\ batch' = r.batch
    /\ sess' = r.sess
    /\ ev' = IF r.batch.pc = "returned"
             THEN Returned("execute_sequential", 0, "", 0, r.batch.results)
             ELSE NoEv
    /\ UNCHANGED <<agents, wrappers, execs, tasks, now, emitted>>

Manager_execute_sequential(commands) ==
    /\ batch.kind = "none"
    /\ Sequential_apply(Sequential_loop(
          [NoBatch EXCEPT !.kind = "sequential", !.pc = "running",
                          !.commands = commands], 1, sess))

\* the awaited item's wait for output ends: its CommandResult is appended
\* and the loop goes on
Sequential_finish(raw, parse_fails) ==
    /\ batch.kind = "sequential"
    /\ batch.pc = "running"
    /\ \E j \in DOMAIN batch.items :
          /\ batch.items[j].pc = "waiting"
          /\ \A k \in DOMAIN batch.items : batch.items[k].pc = "waiting" => j <= k
          /\ LET result == CommandResultOf(raw, parse_fails)
                 b1 == [batch EXCEPT !.items[j].pc = "done",
                                     !.items[j].result = result]
             IN Sequential_apply(
                    Sequential_result(b1, batch.items[j].index, result, sess))

\* BatchSpec: one batch call on a manager where agent a1 holds the running
\* sessions 1 and 2 and agent a2 is not registered, while a1 may be
\* terminated and the children may exit
BatchInit ==
    /\ agents = [a \in {"a1"} |-> 1]
    /\ wrappers = <<[agent_id |-> "a1", sessions |-> <<1, 2>>]>>
    /\ sess = [s \in 1..2 |-> [StartedSession("a1", 0) EXCEPT
                    !.output_task = "reading", !.error_task = "reading"]]
    /\ execs = [c \in 1..MaxCalls |-> IdleExec]
    /\ tasks = [t \in 1..MaxTasks |-> IdleTask]
    /\ batch = NoBatch
    /\ now = 0
    /\ emitted = 0
    /\ ev = NoEv

BatchNext ==
    \/ \E commands \in Batches : Manager_execute_parallel(commands)
    \/ \E j \in 1..MaxBatch : Item_start(j)
    \/ \E j \in 1..MaxBatch, raw \in RawResults, parse_fails \in BOOLEAN :
          Item_finish(j, raw, parse_fails)
    \/ Parallel_return
    \/ \E commands \in Batches : Manager_execute_sequential(commands)
    \/ \E raw \in RawResults, parse_fails \in BOOLEAN :
          Sequential_finish(raw, parse_fails)
    \/ Manager_terminate_agent(1, "a1")
    \/ Terminate_stopped(1)
    \/ \E graceful \in BOOLEAN : Terminate_wait(1, graceful)
    \/ Terminate_killed(1)
    \/ \E s \in DOMAIN sess : ProcExit(s)

BatchSpec == BatchInit /\ [][BatchNext]_vars

(* ------------------------------ batches -------------------------------- *)
\* C7: the list execute_parallel returns has one entry per input item, at
\* the item's place, and every entry is a CommandResult (a failed one when
\* the item's execution raised): no item is left out and no entry is a raw
\* exception.
C7_ParallelOneResultPerItem ==
    (batch.kind = "parallel" /\ batch.pc = "returned")
    => /\ Len(batch.results) = Len(batch.commands)
       /\ \A i \in DOMAIN batch.commands :
             /\ batch.results[i].item = i
             /\ batch.results[i].r.outcome = "returned"

\* C8: execute_parallel returns only when every item it launched has
\* finished, and each launched item's own outcome is in the list at the
\* item's place, whatever became of the other items: all succeed, then all
\* the results are successes.
C8_ParallelWaitsForAll ==
    (batch.kind = "parallel" /\ batch.pc = "returned")
    => /\ Len(batch.results) = Len(batch.items)
       /\ \A j \in DOMAIN batch.items :
             /\ batch.items[j].pc = "done"
             /\ batch.results[j].item = batch.items[j].index
             /\ batch.results[j].r = batch.items[j].result

\* execute_parallel returned a success for an item launched after one whose
\* execution raised
C8_Witness ==
    /\ batch.kind = "parallel"
    /\ batch.pc = "returned"
    /\ \E j, k \in DOMAIN batch.results :
          /\ j < k
          /\ batch.results[j].r.outcome = "raised"
          /\ batch.results[k].r.success

\* C9: when item k of execute_sequential has stop_on_error set and fails,
\* the returned list has exactly k results and no item after k was begun.
C9_StopOnErrorAtK ==
    (batch.kind = "sequential" /\ batch.pc = "returned")
    => \A k \in DOMAIN batch.commands :
          (/\ batch.commands[k].stop_on_error
           /\ \E r \in DOMAIN batch.results :
                 batch.results[r].item = k /\ ~batch.results[r].r.success)
          => /\ Len(batch.results) = k
             /\ \A j \in DOMAIN batch.items : batch.items[j].index <= k

\* C10: execute_sequential begins its items in input order, begins none
\* before the one before it has finished, and lists the results in input
\* order.
C10_SequentialOneAtATime ==
    batch.kind = "sequential"
    => /\ \A j \in DOMAIN batch.items :
             batch.items[j].pc = "waiting" => j = Len(batch.items)
       /\ \A j, k \in DOMAIN batch.items :
             j < k => batch.items[j].index < batch.items[k].index
       /\ Len(batch.results) =
             Cardinality({j \in DOMAIN batch.items : batch.items[j].pc = "done"})
       /\ \A r \in DOMAIN batch.results :
             /\ batch.results[r].item = batch.items[r].index
             /\ batch.items[r].pc = "done"

\* the second item waits for its output after the first one, which had to
\* wait too, gave its result
C10_Witness ==
    /\ batch.kind = "sequential"
    /\ Len(batch.items) = 2
    /\ batch.items[2].pc = "waiting"
    /\ Len(batch.results) = 1
    /\ batch.results[1].r.success

(* ------- TerminateSpec: terminate() and execute_command on a session --- *)
\* what get_status() shows of a session
Observable(s) ==
    [status |-> s.status, cancelled |-> s.cancelled, process |-> s.process,
     command_count |-> s.command_count]

\* terminate() of task t went on to r; before: what the session showed when
\* the call was made (kept for the caller, the code does not hold it)
Term_apply(t, r, before) ==
    /\ sess' = [sess EXCEPT ![TheSession] = r.s]
    /\ tasks' = [tasks EXCEPT ![t] =
          IF r.pc = "return" THEN IdleTask
          ELSE [op |-> "terminate", pc |-> r.pc, aid |-> "a1", obj |-> 1,
                sid |-> TheSession, keys |-> <<>>, before |-> before]]
    /\ ev' = IF r.pc = "return"
             THEN Returned("terminate", t, "a1", 0, <<before>>)
             ELSE NoEv
    /\ UNCHANGED <<agents, wrappers, execs, batch, now, emitted>>

\* a caller calls CLIProcessSession.terminate()
Session_terminate(t) ==
    /\ FreeSlot(t)
    /\ Term_apply(t, Session_terminate_begin(sess[TheSession]),
                  Observable(sess[TheSession]))

\* stop(): the reader task it cancelled and awaits has ended
Term_stopped(t) ==
    /\ tasks[t].op = "terminate"
    /\ tasks[t].pc \in {"stop_output", "stop_error"}
    /\ LET s == sess[TheSession]
       IN Term_apply(t,
             IF tasks[t].pc = "stop_output"
             THEN Stop_error_task([s EXCEPT !.output_task = Cancelled(@)])
             ELSE Terminate_process([s EXCEPT !.error_task = Cancelled(@)]),
             tasks[t].before)

\* a variant of Term_wait without the forced kill: when the grace period
\* runs out, terminate() gives up waiting
Term_wait_no_kill(t, graceful) ==
    /\ tasks[t].op = "terminate"
    /\ tasks[t].pc = "wait"
    /\ LET s == sess[TheSession]
       IN Term_apply(t,
             [s |-> Terminated(IF graceful THEN [s EXCEPT !.process = "exited"]
                               ELSE s),
              pc |-> "return"],
             tasks[t].before)

\* process.terminate() and the wait of at most 5 seconds
Term_wait(t, graceful) ==
    /\ tasks[t].op = "terminate"
    /\ tasks[t].pc = "wait"
    /\ LET s == sess[TheSession]
       IN Term_apply(t,
             IF graceful \/ s.process = "exited"
             THEN [s |-> Terminated([s EXCEPT !.process = "exited"]),
                   pc |-> "return"]
             ELSE [s |-> s, pc |-> "kill_wait"],
             tasks[t].before)

\* process.kill() and the wait for the exit
Term_killed(t) ==
    /\ tasks[t].op = "terminate"
    /\ tasks[t].pc = "kill_wait"
    /\ Term_apply(t,
          [s |-> Terminated([sess[TheSession] EXCEPT !.process = "exited"]),
           pc |-> "return"],
          tasks[t].before)

\* the session is fresh from __init__, or its start() failed at the spawn,
\* or it runs
TerminateInit ==
    /\ agents = [a \in {"a1"} |-> 1]
    /\ wrappers = <<[agent_id |-> "a1", sessions |-> <<TheSession>>]>>
    /\ sess \in {<<NewSession("a1", 0)>>,
                 <<[NewSession("a1", 0) EXCEPT !.status = "error"]>>,
                 <<[StartedSession("a1", 0) EXCEPT
                       !.output_task = "reading", !.error_task = "reading"]>>}
    /\ execs = [c \in 1..MaxCalls |-> IdleExec]
    /\ tasks = [t \in 1..MaxTasks |-> IdleTask]
    /\ batch = NoBatch
    /\ now = 0
    /\ emitted = 0
    /\ ev = NoEv

TerminateNext ==
    \/ \E stream \in {"stdout", "stderr"} : \E line \in RawLines(stream) :
          ProcEmit(TheSession, stream, line)
    \/ ProcExit(TheSession)
    \/ Tick
    \/ \E stream \in {"stdout", "stderr"} : ReaderRead(TheSession, stream)
    \/ \E stream \in {"stdout", "stderr"} : ReaderEOF(TheSession, stream)
    \/ \E timeout \in Timeouts, format_fails \in BOOLEAN :
          ExecCall(1, timeout, format_fails)
    \/ \E parse_fails \in BOOLEAN : ExecGet(1, parse_fails)
    \/ \E parse_fails \in BOOLEAN : ExecPoll(1, parse_fails)
    \/ \E t \in 1..MaxTasks : Session_terminate(t)
    \/ \E t \in 1..MaxTasks : Term_stopped(t)
    \/ \E t \in 1..MaxTasks, graceful \in BOOLEAN : Term_wait(t, graceful)
    \/ \E t \in 1..MaxTasks : Term_killed(t)

TerminateSpec == TerminateInit /\ [][TerminateNext]_vars

(* ---------------------- claims under TerminateSpec --------------------- *)
\* C13: a call that was waiting for output when terminate() was called, and
\* whose wait ends because the child is gone, returns a failed CommandResult
\* (success = false).
C13_AbortedCallFails ==
    (/\ ev.op = "execute_command"
     /\ ev.kind = "return"
     /\ execs[ev.who].exit = "exited"
     /\ sess[TheSession].cancelled)
    => ~ev.res[1].success

\* C14: terminate() never raises, and when it returns the status is STOPPED,
\* both readers have ended and the child, if one was ever spawned, has
\* exited.
C14_TerminateEndsStopped ==
    ev.op = "terminate"
    => /\ ev.kind = "return"
       /\ sess[TheSession].status = "stopped"
       /\ sess[TheSession].cancelled
       /\ sess[TheSession].process \in {"exited", "none"}
       /\ sess[TheSession].process = "none" => ~sess[TheSession].stdio
       /\ ~Pending(sess[TheSession].output_task)
       /\ ~Pending(sess[TheSession].error_task)

\* terminate() returned for a session whose readers it had to cancel
C14_Witness ==
    /\ ev.op = "terminate"
    /\ ev.kind = "return"
    /\ sess[TheSession].process = "exited"
    /\ sess[TheSession].output_task = "cancelled"
    /\ sess[TheSession].error_task = "cancelled"

\* C15: a terminate() call made on a session that a terminate() had already
\* left stopped returns without raising, and what the session shows is then
\* what it showed when the call was made.
C15_SecondTerminateIsNoOp ==
    (/\ ev.op = "terminate"
     /\ ev.res[1].status = "stopped"
     /\ ev.res[1].cancelled)
    => /\ ev.kind = "return"
       /\ Observable(sess[TheSession]) = ev.res[1]

\* a second terminate() returned for a session that had run a command and
\* whose child had been terminated
C15_Witness ==
    /\ ev.op = "terminate"
    /\ ev.kind = "return"
    /\ ev.res[1] = [status |-> "stopped", cancelled |-> TRUE,
                    process |-> "exited", command_count |-> 1]

\* C20: a call of execute_command made while the status is not RUNNING
\* raises the illegal-state failure and leaves the session, its counters
\* and the child's input as they were.
C20_NotRunningIsRejected ==
    [][\A c \in DOMAIN execs :
          (/\ execs[c].pc = "idle"
           /\ execs'[c].pc # "idle"
           /\ sess[TheSession].status # "running")
          => /\ ev'.op = "execute_command"
             /\ ev'.kind = "raise"
             /\ ev'.err = "RuntimeError"
             /\ sess'[TheSession] = sess[TheSession]]_vars

\* a call was rejected while terminate() waited for the live child to exit
C20_Witness ==
    /\ ev.op = "execute_command"
    /\ ev.kind = "raise"
    /\ sess[TheSession].status = "stopping"
    /\ sess[TheSession].process = "alive"
    /\ sess[TheSession].stdin = <<>>

(* ------------------ terminate_agent and the status, under Spec --------- *)
\* C16: a terminate_agent call made for a registered agent does not raise,
\* and when it ends the agent it was called for holds no session any more
\* and its id is not registered.
C16_TerminateAgentTerminatesAll ==
    [][\A t \in DOMAIN tasks :
          (/\ ev'.op = "terminate_agent"
           /\ ev'.who = t
           /\ (tasks[t].op = "terminate_agent" \/ ev'.aid \in DOMAIN agents))
          => LET obj == IF tasks[t].op = "terminate_agent" THEN tasks[t].obj
                        ELSE agents[ev'.aid]
             IN /\ ev'.kind = "return"
                /\ wrappers'[obj].sessions = <<>>
                /\ ev'.aid \notin DOMAIN agents']_vars

\* C36: terminate_agent calls that overlap on one agent (the only agent
\* object ever registered) all end by returning, none by raising, and each
\* leaves the agent's id unregistered.
C36_OverlappingTerminatesComplete ==
    [][(ev'.op = "terminate_agent" /\ Len(wrappers') = 1)
       => /\ ev'.kind = "return"
          /\ ev'.aid \notin DOMAIN agents']_vars

\* C17: outside an executing start() or terminate() of the session, a
\* session whose status is RUNNING has a live child.
C17_RunningMeansAlive ==
    \A s \in DOMAIN sess :
        (/\ sess[s].status = "running"
         /\ \A t \in DOMAIN tasks :
               ~(tasks[t].op \in {"create_session", "terminate_agent"}
                 /\ tasks[t].sid = s))
        => sess[s].process = "alive"

(* --------------------- start() and the lifecycle, under Spec ----------- *)
\* the session a step of create_session's start() worked on: the one the
\* task waited on, or the one the step built
StartedIn(t, s) ==
    IF tasks[t].op = "create_session" THEN s = tasks[t].sid
    ELSE s = Len(sess) + 1

\* the sessions no start() is executing on
StartOver(s) ==
    \A t \in DOMAIN tasks :
        ~(tasks[t].op = "create_session" /\ tasks[t].sid = s)

\* C21: a step in which start() ends either returns with the status RUNNING
\* or raises the wrapped failure (RuntimeError) with the status ERROR,
\* whether it failed before or after the child was spawned; and a session
\* whose start() has returned or raised never has the status STARTING.
C21_FailedStartIsError ==
    [][/\ \A t \in DOMAIN tasks, s \in DOMAIN sess' :
             (ev'.op = "create_session" /\ ev'.who = t /\ ev'.err # "ValueError"
                 /\ StartedIn(t, s))
             => \/ ev'.kind = "return" /\ sess'[s].status = "running"
                \/ /\ ev'.kind = "raise"
                   /\ ev'.err = "RuntimeError"
                   /\ sess'[s].status = "error"
       /\ \A s \in DOMAIN sess' :
             StartOver(s)' => sess'[s].status # "starting"]_vars

\* start() raised after the child was spawned and the readers had started
C21_Witness ==
    /\ ev.op = "create_session"
    /\ ev.kind = "raise"
    /\ ev.err = "RuntimeError"
    /\ \E s \in DOMAIN sess :
          /\ StartOver(s)
          /\ sess[s].status = "error"
          /\ sess[s].process = "alive"
          /\ sess[s].output_task = "reading"

\* C34: when a start() that had spawned the child raises, the session it
\* leaves behind (held by no agent) has no live child and no reader task
\* that has not ended.
C34_FailedStartLeavesNothing ==
    [][\A t \in DOMAIN tasks, s \in DOMAIN sess' :
          (/\ ev'.op = "create_session"
           /\ ev'.kind = "raise"
           /\ ev'.err = "RuntimeError"
           /\ ev'.who = t
           /\ StartedIn(t, s))
          => /\ sess'[s].process # "alive"
             /\ ~Pending(sess'[s].output_task)
             /\ ~Pending(sess'[s].error_task)]_vars

\* the status changes one step of a task may show: the edges of the
\* lifecycle, and running -> stopped for a terminate() that never suspends
LifecycleSteps ==
    {<<"stopped", "starting">>, <<"starting", "running">>,
     <<"starting", "error">>, <<"running", "stopping">>,
     <<"stopping", "stopped">>, <<"running", "stopped">>}

\* C22: the status of a session changes only along the lifecycle: a session
\* appears with the status STARTING (or ERROR, when its start failed before
\* the first suspension), has the status STARTING for as long as start()
\* executes on it, and every later change of its status is one of
\* starting -> running, starting -> error, running -> stopping,
\* stopping -> stopped.
C22_LifecycleEdges ==
    [][\A s \in DOMAIN sess' :
          /\ ~StartOver(s)' => sess'[s].status = "starting"
          /\ s \notin DOMAIN sess => sess'[s].status \in {"starting", "error"}
          /\ (s \in DOMAIN sess /\ sess'[s].status # sess[s].status)
             => <<sess[s].status, sess'[s].status>> \in LifecycleSteps]_vars

(* ------------------ calls with unknown names, under Spec --------------- *)
\* C23: a register_agent call whose adapter name is not in the adapter
\* table raises ValueError (unknown adapter) and leaves the registry, the
\* agents and the sessions as they were.
C23_UnknownAdapterFails ==
    [][\A a \in AgentIds, n \in AdapterNames \ AdapterTable :
          Manager_register_agent(a, n)
          => /\ ev'.kind = "raise"
             /\ ev'.err = "ValueError"
             /\ agents' = agents
             /\ wrappers' = wrappers
             /\ sess' = sess
             /\ tasks' = tasks]_vars

\* register_agent raised on a manager that had an agent with a session
C23_Witness ==
    /\ ev.op = "register_agent"
    /\ ev.kind = "raise"
    /\ \E a \in DOMAIN agents : wrappers[agents[a]].sessions # <<>>

\* C25: a terminate_agent call for an agent id that is not registered raises
\* an agent-not-found failure to its caller and changes nothing.
C25_TerminateUnknownAgentFails ==
    [][\A t \in DOMAIN tasks, a \in AgentIds :
          (a \notin DOMAIN agents /\ Manager_terminate_agent(t, a))
          => /\ ev'.kind = "raise"
             /\ agents' = agents
             /\ wrappers' = wrappers
             /\ sess' = sess
             /\ tasks' = tasks]_vars

\* C30: once an agent has been terminated (its id is no longer registered
\* and no terminate_agent call for it is still executing), no session that
\* was created for it has the status RUNNING and a live child, whatever
\* create_session calls overlapped the terminate_agent.
C30_NoSessionOutlivesAgent ==
    \A s \in DOMAIN sess :
        (/\ sess[s].agent_id \notin DOMAIN agents
         /\ \A t \in DOMAIN tasks :
               ~(tasks[t].op = "terminate_agent"
                 /\ tasks[t].aid = sess[s].agent_id))
        => ~(sess[s].status = "running" /\ sess[s].process = "alive")

(* ---- EchoSpec: a generic agent running cat, prompt pattern '.*' -------- *)
\* execute_command's default timeout, in seconds
DefaultTimeout == 30

\* re.compile(r'.*').match(line): some prefix of the line, the empty one
\* included, without a line break in it
any_match(line) ==
    \E i \in 0..Len(line) : \A j \in 1..i : SubSeq(line, j, j) # "\n"

\* GenericAdapter.is_command_complete with that pattern
is_command_complete_any(stdout_lines, stderr_lines) ==
    IF Len(stdout_lines) = 0 THEN FALSE
    ELSE any_match(stdout_lines[Len(stdout_lines)])

\* GenericAdapter.parse_result with that pattern
parse_result_any(raw) ==
    LET output_text == join(raw.stdout)
        error_text  == join(raw.stderr)
        lines       == split(output_text)
        kept        == IF any_match(lines[Len(lines)])
                       THEN SubSeq(lines, 1, Len(lines) - 1)
                       ELSE lines
    IN [output  |-> join(kept),
        error   |-> error_text,
        success |-> Len(error_text) = 0]

\* cat copies the next line of its input to its output
CatEcho(s) ==
    /\ sess[s].process = "alive"
    /\ sess[s].stdin # <<>>
    /\ sess' = [sess EXCEPT ![s].stdin = Tail(@),
                            ![s].stdout = Append(@, Head(sess[s].stdin))]
    /\ emitted' = emitted + 1
    /\ ev' = NoEv
    /\ UNCHANGED <<agents, wrappers, execs, tasks, batch, now>>

\* output_buffer.get() hands the call a queued line, the adapter being the
\* one with the pattern '.*'
EchoGet(c) ==
    /\ execs[c].pc = "get"
    /\ sess[TheSession].output_buffer # <<>>
    /\ LET item == Head(sess[TheSession].output_buffer)
           e    == execs[c]
           out  == IF item[1] = "stdout" THEN Append(e.output_lines, item[2])
                   ELSE e.output_lines
           err  == IF item[1] \in {"stderr", "error"}
                   THEN Append(e.error_lines, item[2])
                   ELSE e.error_lines
           e1   == IF is_command_complete_any(out, err)
                   THEN [e EXCEPT !.pc = "done", !.output_lines = out,
                            !.error_lines = err, !.exit = "complete",
                            !.result = [outcome |-> "returned", success |-> TRUE,
                                        parsed |-> parse_result_any(
                                            [stdout |-> out, stderr |-> err])]]
                   ELSE ExecLoop(e, out, err, FALSE)
       IN /\ execs' = [execs EXCEPT ![c] = e1]
          /\ ev' = ExecEvent(c, e1)
    /\ sess' = [sess EXCEPT ![TheSession].output_buffer = Tail(@)]
    /\ UNCHANGED <<agents, wrappers, tasks, batch, now, emitted>>

\* the session has been created and runs cat
EchoInit == SessionInit

EchoNext ==
    \/ CatEcho(TheSession)
    \/ Tick
    \/ \E stream \in {"stdout", "stderr"} : ReaderRead(TheSession, stream)
    \/ \E c \in 1..MaxCalls : ExecCall(c, DefaultTimeout, FALSE)
    \/ \E c \in 1..MaxCalls : EchoGet(c)
    \/ \E c \in 1..MaxCalls : ExecPoll(c, FALSE)

EchoSpec == EchoInit /\ [][EchoNext]_vars

\* C18: with cat as the child and a prompt pattern that matches any line, a
\* call that sent "hello" returns a CommandResult with success = true whose
\* output contains "hello".
C18_EchoReturnsHello ==
    \A c \in DOMAIN execs :
        execs[c].pc = "done"
        => /\ execs[c].result.success
           /\ contains(execs[c].result.parsed.output, Command)

(* ------- AdapterSpec: GenericAdapter.is_command_complete on its own ----- *)
\* lines per list that AdapterSpec hands to the adapter
MaxLines == 2

\* GenericAdapter.name: register_agent names the adapter after the agent id
AdapterIds == {"a1", "claude"}
\* captured lines: ordinary output, prompts, a blank line, a line with a
\* prompt character inside it
StdoutLines == {"output line", "$ ", "", "a > b", "x#"}
StderrLines == {"err", "$ "}

\* the sequences over S of at most n elements
SeqUpTo(S, n) == UNION {[1..k -> S] : k \in 0..n}

\* a variant of GenericAdapter_is_command_complete that looks at the last
\* captured line of either stream
GenericAdapter_is_command_complete_either(name, stdout_lines, stderr_lines) ==
    LET all_lines == stdout_lines \o stderr_lines
    IN IF Len(all_lines) = 0 THEN FALSE
       ELSE IF name = "claude" THEN TRUE
       ELSE prompt_match(all_lines[Len(all_lines)])

\* GenericAdapter.is_command_complete
GenericAdapter_is_command_complete(name, stdout_lines, stderr_lines) ==
    IF Len(stdout_lines) = 0 THEN FALSE
    ELSE IF name = "claude" THEN Len(stdout_lines) > 0
    ELSE prompt_match(stdout_lines[Len(stdout_lines)])

\* StdioController.execute_command asks the adapter whether the lines it
\* holds complete the command
Adapter_is_command_complete ==
    /\ ev' = Returned("is_command_complete", 1, wrappers[1].agent_id, 0,
                <<GenericAdapter_is_command_complete(wrappers[1].agent_id,
                      execs[1].output_lines, execs[1].error_lines)>>)
    /\ UNCHANGED <<agents, wrappers, sess, execs, tasks, batch, now, emitted>>

\* an agent's adapter and the lists of a call, as they may be when the call
\* asks
AdapterInit ==
    /\ \E name \in AdapterIds :
          /\ agents = [a \in {name} |-> 1]
          /\ wrappers = <<[agent_id |-> name, sessions |-> <<>>]>>
    /\ sess = <<>>
    /\ \E out \in SeqUpTo(StdoutLines, MaxLines),
          err \in SeqUpTo(StderrLines, MaxLines) :
          execs = [c \in 1..MaxCalls |->
                      IF c = 1 THEN [IdleExec EXCEPT !.output_lines = out,
                                                     !.error_lines = err]
                      ELSE IdleExec]
    /\ tasks = [t \in 1..MaxTasks |-> IdleTask]
    /\ batch = NoBatch
    /\ now = 0
    /\ emitted = 0
    /\ ev = NoEv

AdapterNext == Adapter_is_command_complete

AdapterSpec == AdapterInit /\ [][AdapterNext]_vars

\* C27: is_command_complete answers false when no stdout line was captured
\* or the last stdout line does not match the prompt pattern, true when it
\* matches (for the adapter named 'claude': true with any stdout line); the
\* stderr lines have no part in the answer, and the call changes no state.
C27_CompleteIffLastLineIsPrompt ==
    [][ev'.op = "is_command_complete"
       => LET out == execs[1].output_lines
          IN /\ out = <<>> => ev'.res[1] = FALSE
             /\ (out # <<>> /\ ev'.aid = "claude") => ev'.res[1] = TRUE
             /\ (out # <<>> /\ ev'.aid # "claude")
                => ev'.res[1] = prompt_match(out[Len(out)])
             \* the cases of test_is_command_complete
             /\ (out = <<"output line">> /\ ev'.aid # "claude")
                => ev'.res[1] = FALSE
             /\ out = <<"output line", "$ ">> => ev'.res[1] = TRUE
             /\ UNCHANGED <<agents, wrappers, sess, execs, tasks, batch,
                            now, emitted>>]_vars

\* the adapter answered no although the last stderr line is a prompt: the
\* last stdout line is not
C27_Witness ==
    /\ ev.op = "is_command_complete"
    /\ ev.aid # "claude"
    /\ ev.res[1] = FALSE
    /\ execs[1].output_lines = <<"$ ", "output line">>
    /\ execs[1].error_lines = <<"err", "$ ">>

(* ----- RoutingSpec: single calls routed by the manager to a session ---- *)
\* commands one session accepts in one behaviour of RoutingSpec
MaxCommands == 2

\* the session ids callers pass
SessionIds == 1..MaxSessions \cup {UnknownSession}

\* CLIAgentManager.execute_command -> CLIAgentWrapper.execute_command ->
\* CLIProcessSession.execute_command, up to the wait for the output
Manager_execute_command(t, agent_id, session_id) ==
    /\ FreeSlot(t)
    /\ IF agent_id \notin DOMAIN agents
       THEN /\ ev' = Raised("execute_command", t, agent_id, "ValueError")
            /\ UNCHANGED <<sess, tasks>>
       ELSE LET obj == agents[agent_id]
                x   == Agent_execute_begin(obj, session_id, sess)
            IN IF x.kind = "raise"
               THEN /\ ev' = Raised("execute_command", t, agent_id,
                                IF session_id \notin Range(wrappers[obj].sessions)
                                THEN "ValueError" ELSE "RuntimeError")
                    /\ UNCHANGED <<sess, tasks>>
               ELSE /\ sess[session_id].command_count < MaxCommands
                    /\ sess' = [sess EXCEPT ![session_id] = x.s]
                    /\ IF x.kind = "return"
                       THEN /\ ev' = Returned("execute_command", t, agent_id, 0,
                                              <<x.result>>)
                            /\ UNCHANGED tasks
                       ELSE /\ tasks' = [tasks EXCEPT ![t] =
                                  [IdleTask EXCEPT !.op = "execute_command",
                                      !.pc = "waiting", !.aid = agent_id,
                                      !.obj = obj, !.sid = session_id]]
                            /\ ev' = NoEv
    /\ UNCHANGED <<agents, wrappers, execs, batch, now, emitted>>

\* the call's wait for output ends and it returns its CommandResult
Execute_finish(t, raw, parse_fails) ==
    /\ tasks[t].op = "execute_command"
    /\ tasks' = [tasks EXCEPT ![t] = IdleTask]
    /\ ev' = Returned("execute_command", t, tasks[t].aid, 0,
                      <<CommandResultOf(raw, parse_fails)>>)
    /\ UNCHANGED <<agents, wrappers, sess, execs, batch, now, emitted>>

\* CLIProcessSession.get_status
Session_get_status(s) ==
    /\ s \in DOMAIN sess
    /\ ev' = Returned("get_status", s, sess[s].agent_id, 0,
                      <<Observable(sess[s])>>)
    /\ UNCHANGED <<agents, wrappers, sess, execs, tasks, batch, now, emitted>>

\* a second passes
Clock ==
    /\ now < MaxTime
    /\ now' = now + 1
    /\ ev' = NoEv
    /\ UNCHANGED <<agents, wrappers, sess, execs, tasks, batch, emitted>>

\* agent a1 is registered and holds one running session
RoutingInit == SessionInit

\* one call of create_session or execute_command at a time
RoutingNext ==
    \/ \E a \in AgentIds, n \in AdapterNames : Manager_register_agent(a, n)
    \/ \E a \in AgentIds, spawn_fails \in BOOLEAN :
          Manager_create_session(1, a, spawn_fails)
    \/ \E ready_fails \in BOOLEAN : Session_start_ready(1, ready_fails)
    \/ \E s \in DOMAIN sess : ReadersStart(s)
    \/ \E a \in AgentIds, sid \in SessionIds : Manager_execute_command(1, a, sid)
    \/ \E raw \in RawResults, parse_fails \in BOOLEAN :
          Execute_finish(1, raw, parse_fails)
    \/ \E s \in DOMAIN sess : Session_get_status(s)
    \/ \E s \in DOMAIN sess : ProcExit(s)
    \/ Clock

RoutingSpec == RoutingInit /\ [][RoutingNext]_vars

\* the call failed with a not-found error and nothing changed
NotFound ==
    /\ ev'.kind = "raise"
    /\ ev'.err = "ValueError"
    /\ UNCHANGED <<agents, wrappers, sess, execs, tasks, batch, now, emitted>>

\* C24: create_session and execute_command for an agent id that is not
\* registered, and execute_command for a session id the agent does not
\* hold, raise ValueError (not found) in the step of the call and leave the
\* registry, the agents, the sessions (their children and the input sent to
\* them) and the calls in progress as they were.
C24_UnknownIdsFailAtOnce ==
    [][/\ \A t \in DOMAIN tasks, a \in AgentIds \ DOMAIN agents :
             /\ \A spawn_fails \in BOOLEAN :
                   Manager_create_session(t, a, spawn_fails) => NotFound
             /\ \A sid \in SessionIds :
                   Manager_execute_command(t, a, sid) => NotFound
       /\ \A t \in DOMAIN tasks, a \in DOMAIN agents, sid \in SessionIds :
             (sid \notin Range(wrappers[agents[a]].sessions)
                 /\ Manager_execute_command(t, a, sid))
             => NotFound]_vars

\* execute_command raised for a registered agent and the running session of
\* another agent
C24_Witness ==
    /\ ev.op = "execute_command"
    /\ ev.kind = "raise"
    /\ ev.aid \in DOMAIN agents
    /\ \E s \in DOMAIN sess :
          /\ sess[s].status = "running"
          /\ sess[s].stdin = <<>>
          /\ s \notin Range(wrappers[agents[ev.aid]].sessions)
          /\ \E b \in DOMAIN agents :
                b # ev.aid /\ s \in Range(wrappers[agents[b]].sessions)

\* C28: a call of execute_command on a session whose status is RUNNING adds
\* one to the session's command counter and sets last_activity to the time
\* of the call, in the step of the call and whatever the call's outcome; no
\* other step changes the counter; and get_status returns the counter and
\* changes nothing.
C28_EveryAcceptedCallCounts ==
    [][/\ \A t \in DOMAIN tasks, a \in DOMAIN agents, sid \in DOMAIN sess :
             (/\ sid \in Range(wrappers[agents[a]].sessions)
              /\ sess[sid].status = "running"
              /\ Manager_execute_command(t, a, sid))
             => /\ sess'[sid].command_count = sess[sid].command_count + 1
                /\ sess'[sid].last_activity = now
       /\ \A s \in DOMAIN sess :
             /\ sess'[s].command_count >= sess[s].command_count
             /\ sess'[s].command_count # sess[s].command_count
                => \E t \in DOMAIN tasks, a \in DOMAIN agents :
                      Manager_execute_command(t, a, s)
             /\ Session_get_status(s)
                => /\ ev'.res[1].command_count = sess[s].command_count
                   /\ UNCHANGED <<agents, wrappers, sess, execs, tasks,
                                  batch, now, emitted>>]_vars

\* a session counts two commands, the later one made after time had passed
\* and on a child that had exited: that call returned a failure
C28_Witness ==
    /\ ev.op = "execute_command"
    /\ ev.kind = "return"
    /\ ev.res[1].parsed.error = SendFailure
    /\ \E s \in DOMAIN sess :
          /\ sess[s].command_count = 2
          /\ sess[s].last_activity > 0
          /\ sess[s].process = "exited"


(* ---- LeftoverSpec: a command sent after an earlier one has returned ---- *)
\* The session when an earlier command has returned: its input was written
\* and counted, and what the child printed for it late, if anything, is in
\* the stdout pipe or in the queue.  In LeftoverSpec `emitted` counts the
\* lines the child writes from then on, and the child writes again only
\* once the next command has been sent, so that `emitted` then is the lines
\* written after that command's input.
LeftoverInit ==
    /\ agents = [a \in {"a1"} |-> 1]
    /\ wrappers = <<[agent_id |-> "a1", sessions |-> <<TheSession>>]>>
    /\ sess \in {<<[StartedSession("a1", 0) EXCEPT
                      !.output_task = "reading", !.error_task = "reading",
                      !.stdin = <<Command \o "\n">>, !.command_count = 1,
                      !.output_buffer = queued, !.stdout = piped]>> :
                    queued \in {<<>>, <<<<"stdout", "ok">>>>},
                    piped \in {<<>>, <<"ok\r\n">>}}
    /\ execs = [c \in 1..MaxCalls |-> IdleExec]
    /\ tasks = [t \in 1..MaxTasks |-> IdleTask]
    /\ batch = NoBatch
    /\ now = 0
    /\ emitted = 0
    /\ ev = NoEv

\* the child writes a line after the command was sent
LateEmit(stream, line) ==
    /\ execs[1].pc # "idle"
    /\ ProcEmit(TheSession, stream, line)

LeftoverNext ==
    \/ \E stream \in {"stdout", "stderr"} : \E line \in RawLines(stream) :
          LateEmit(stream, line)
    \/ ProcExit(TheSession)
    \/ Tick
    \/ \E stream \in {"stdout", "stderr"} : ReaderRead(TheSession, stream)
    \/ \E stream \in {"stdout", "stderr"} : ReaderEOF(TheSession, stream)
    \/ \E timeout \in Timeouts, format_fails \in BOOLEAN :
          ExecCall(1, timeout, format_fails)
    \/ \E parse_fails \in BOOLEAN : ExecGet(1, parse_fails)
    \/ \E parse_fails \in BOOLEAN : ExecPoll(1, parse_fails)

LeftoverSpec == LeftoverInit /\ [][LeftoverNext]_vars

\* C33: the lines a call returns were written by the child after the
\* call's input: the call never holds more lines than the child has written
\* since its input, whatever an earlier command left in the pipe or in the
\* queue.
C33_OnlyLaterOutput == Taken(1) <= emitted

(* ------------- StopSpec: StdioController.stop() on its own ------------- *)
\* the controller as StdioController.__init__ leaves it, for a child that
\* runs: not running, no reader task
NewController ==
    [StartedSession("a1", 0) EXCEPT
        !.running = FALSE, !.output_task = "none", !.error_task = "none"]

\* StdioController.start(): no await in it
Controller_start ==
    /\ sess[TheSession].output_task = "none"
    /\ sess' = [sess EXCEPT ![TheSession].running = TRUE,
                            ![TheSession].output_task = "new",
                            ![TheSession].error_task = "new"]
    /\ ev' = Returned("start", 0, "", 0, <<>>)
    /\ UNCHANGED <<agents, wrappers, execs, tasks, batch, now, emitted>>

\* a variant of Controller_stop_error that cancels the error reader without
\* awaiting it
Controller_stop_error_not_awaited(s) ==
    [s |-> [s EXCEPT !.error_task = IF Pending(@) THEN "cancelling" ELSE @],
     pc |-> "return"]

\* stop() from `if self.error_task:` on: cancel() and the await of a task
\* that has not ended suspend stop(); there is no task, or the task has
\* ended (cancel() does nothing and the await returns at once, a
\* CancelledError of the task being caught)
Controller_stop_error(s) ==
    IF Pending(s.error_task)
    THEN [s |-> [s EXCEPT !.error_task = "cancelling"], pc |-> "stop_error"]
    ELSE [s |-> s, pc |-> "return"]

\* stop() from `if self.output_task:` on
Controller_stop_output(s) ==
    IF Pending(s.output_task)
    THEN [s |-> [s EXCEPT !.output_task = "cancelling"], pc |-> "stop_output"]
    ELSE Controller_stop_error(s)

\* what a run of stop() up to its next suspension, or to its return, leaves
Stop_apply(t, r) ==
    /\ sess' = [sess EXCEPT ![TheSession] = r.s]
    /\ IF r.pc = "return"
       THEN /\ tasks' = [tasks EXCEPT ![t] = IdleTask]
            /\ ev' = Returned("stop", t, "", 0, <<>>)
       ELSE /\ tasks' = [tasks EXCEPT ![t] =
                           [IdleTask EXCEPT !.op = "stop", !.pc = r.pc]]
            /\ ev' = NoEv
    /\ UNCHANGED <<agents, wrappers, execs, batch, now, emitted>>

\* a caller calls StdioController.stop()
Controller_stop(t) ==
    /\ FreeSlot(t)
    /\ Stop_apply(t, Controller_stop_output(
                        [sess[TheSession] EXCEPT !.running = FALSE]))

\* the reader task that a stop() cancelled and awaits has ended, and the
\* stop() goes on
Controller_stopped(t) ==
    /\ tasks[t].op = "stop"
    /\ LET s == sess[TheSession]
       IN Stop_apply(t,
             IF tasks[t].pc = "stop_output"
             THEN Controller_stop_error([s EXCEPT !.output_task = Cancelled(@)])
             ELSE [s |-> [s EXCEPT !.error_task = Cancelled(@)],
                   pc |-> "return"])

StopInit ==
    /\ agents = [a \in {"a1"} |-> 1]
    /\ wrappers = <<[agent_id |-> "a1", sessions |-> <<TheSession>>]>>
    /\ sess = <<NewController>>
    /\ execs = [c \in 1..MaxCalls |-> IdleExec]
    /\ tasks = [t \in 1..MaxTasks |-> IdleTask]
    /\ batch = NoBatch
    /\ now = 0
    /\ emitted = 0
    /\ ev = NoEv

StopNext ==
    \/ \E stream \in {"stdout", "stderr"} : \E line \in RawLines(stream) :
          ProcEmit(TheSession, stream, line)
    \/ ProcExit(TheSession)
    \/ Controller_start
    \/ ReadersStart(TheSession)
    \/ \E stream \in {"stdout", "stderr"} : ReaderRead(TheSession, stream)
    \/ \E stream \in {"stdout", "stderr"} : ReaderEOF(TheSession, stream)
    \/ \E t \in 1..MaxTasks : Controller_stop(t)
    \/ \E t \in 1..MaxTasks : Controller_stopped(t)

StopSpec == StopInit /\ [][StopNext]_vars

\* both reader tasks of a started controller have ended and the running
\* flag is off
ReadersOver(s) ==
    /\ ~s.running
    /\ s.output_task \in {"done", "cancelled"}
    /\ s.error_task \in {"done", "cancelled"}

\* C32: every call of stop() returns without raising, on a controller that
\* was never started and on one that was stopped before; when it returns no
\* reader task is still pending, and from then on nothing is added to the
\* queue.
C32_StopIsIdempotent ==
    [][/\ (\E t \in DOMAIN tasks : Controller_stop(t) \/ Controller_stopped(t))
          => /\ ev'.op = "stop" => ev'.kind = "return"
             /\ ev'.kind \in {"return", "none"}
       /\ (ev'.op = "stop" /\ ev'.kind = "return")
          => /\ ~sess'[TheSession].running
             /\ ~Pending(sess'[TheSession].output_task)
             /\ ~Pending(sess'[TheSession].error_task)
       /\ ReadersOver(sess[TheSession])
          => /\ ReadersOver(sess'[TheSession])
             /\ sess'[TheSession].output_buffer = sess[TheSession].output_buffer
      ]_vars

\* a stop() returned on a controller whose readers an earlier stop() had
\* cancelled, while the child lives and has written a line nobody read
C32_Witness ==
    /\ ev.op = "stop"
    /\ ev.kind = "return"
    /\ ev.who = 1
    /\ tasks[1].op = "idle"
    /\ sess[TheSession].output_task = "cancelled"
    /\ sess[TheSession].error_task = "cancelled"
    /\ sess[TheSession].process = "alive"
    /\ sess[TheSession].stdout # <<>>
    /\ sess[TheSession].output_buffer # <<>>


(* ----- MultiSpec: MultiAgentManager (aiswitch/multi_agent/manager.py) --- *)
\* agent_info dictionaries stored in one behaviour of MultiSpec
MaxAgents == 2
\* agent ids in the agent_ids list of one execute_task call
MaxTargets == 2
\* execute_task is called only on agents whose task_count is below this
MaxTaskCount == 1

\* MultiAgentManager.adapters: the one key 'claude'
MultiAdapterTable == {"claude"}
MultiAdapterTypes == {"claude", "unknown"}
\* the mode argument of execute_task
Modes == {"parallel", "sequential", "unknown"}
\* the agent_ids argument of execute_task: lists that name no agent twice
AgentIdLists ==
    {ids \in UNION {[1..n -> AgentIds] : n \in 0..MaxTargets} :
        \A i, j \in DOMAIN ids : ids[i] = ids[j] => i = j}

\* In MultiSpec `agents` is MultiAgentManager.agents (agent id -> number of
\* the agent_info dictionary), `wrappers` the agent_info dictionaries ever
\* stored and `tasks` the calls of the manager in progress.
\* the dictionary register_agent stores; adapter: "ready" while the
\* ClaudeAdapter holds a connected client, "closed" after close()
AgentInfo(agent_id) ==
    [agent_id |-> agent_id, adapter |-> "ready", status |-> "idle",
     task_count |-> 0]

\* a call in progress.  ids, mode, stop: the arguments of execute_task
\* (stop: task.metadata['stop_on_error']); items: the _execute_on_agent
\* coroutines handed to gather; results, i: the list and the position of
\* _execute_sequential's loop; obj: the agent_info the call holds
MultiTask == [op |-> "idle", pc |-> "", aid |-> "", obj |-> 0, mode |-> "",
              ids |-> <<>>, stop |-> FALSE, items |-> <<>>, results |-> <<>>,
              i |-> 0]

\* a TaskResult: task_id is f"{agent_id}-{task.id}"
TaskResult(agent_id, success) == [task_id |-> agent_id, success |-> success]

\* an _execute_on_agent coroutine of gather: not started, awaiting the
\* adapter, or done with a TaskResult or with an exception
NewItem == [pc |-> "new", obj |-> 0, exception |-> FALSE,
            result |-> TaskResult("", FALSE)]

\* register_agent up to `await adapter.initialize()`.  preset_fails: the
\* preset cannot be loaded, initialize() raises before it suspends
Multi_register_agent(t, agent_id, adapter_type, preset_fails) ==
    /\ FreeSlot(t)
    /\ IF adapter_type \notin MultiAdapterTable \/ agent_id \in DOMAIN agents
       THEN /\ ev' = Raised("register_agent", t, agent_id, "ValueError")
            /\ UNCHANGED tasks
       ELSE /\ Len(wrappers)
                 + Cardinality({u \in DOMAIN tasks :
                                   tasks[u].op = "register_agent"}) < MaxAgents
            /\ IF preset_fails
               THEN /\ ev' = Raised("register_agent", t, agent_id, "RuntimeError")
                    /\ UNCHANGED tasks
               ELSE /\ tasks' = [tasks EXCEPT ![t] =
                          [MultiTask EXCEPT !.op = "register_agent",
                              !.pc = "initialize", !.aid = agent_id]]
                    /\ ev' = NoEv
    /\ UNCHANGED <<agents, wrappers, sess, execs, batch, now, emitted>>

\* register_agent after initialize(): the client is connected and the
\* agent_info is stored under the agent id, or connect() raised and the
\* wrapped failure is raised
Multi_register_initialized(t, connect_fails) ==
    /\ tasks[t].op = "register_agent"
    /\ IF connect_fails
       THEN /\ ev' = Raised("register_agent", t, tasks[t].aid, "RuntimeError")
            /\ UNCHANGED <<agents, wrappers>>
       ELSE /\ wrappers' = Append(wrappers, AgentInfo(tasks[t].aid))
            /\ agents' = [a \in DOMAIN agents \cup {tasks[t].aid} |->
                             IF a = tasks[t].aid THEN Len(wrappers) + 1
                             ELSE agents[a]]
            /\ ev' = Returned("register_agent", t, tasks[t].aid, 0, <<>>)
    /\ tasks' = [tasks EXCEPT ![t] = MultiTask]
    /\ UNCHANGED <<sess, execs, batch, now, emitted>>

\* the first loop of _execute_parallel: every listed agent becomes BUSY
RECURSIVE Multi_mark_busy(_, _)
Multi_mark_busy(W, ids) ==
    IF ids = <<>> THEN W
    ELSE Multi_mark_busy([W EXCEPT ![agents[Head(ids)]].status = "busy"],
                         Tail(ids))

\* _execute_sequential from the head of its loop to the next suspension, or
\* to its end.  _execute_on_agent runs inside the caller's task: an adapter
\* without a client raises at once, which becomes a failed TaskResult.
RECURSIVE Multi_sequential_loop(_, _, _)
RECURSIVE Multi_sequential_result(_, _, _, _)
Multi_sequential_loop(t, task, W) ==
    IF task.i > Len(task.ids)
    THEN [wrappers |-> W, task |-> MultiTask,
          ev |-> Returned("execute_task", t, "", 0, task.results)]
    ELSE LET id == task.ids[task.i] IN
         IF id \notin DOMAIN agents
         THEN [wrappers |-> W, task |-> MultiTask,
               ev |-> Raised("execute_task", t, id, "KeyError")]
         ELSE LET obj == agents[id]
                  W1  == [W EXCEPT ![obj].status = "busy"]
              IN IF W1[obj].adapter = "ready"
                 THEN [wrappers |-> W1,
                       task |-> [task EXCEPT !.pc = "executing", !.obj = obj],
                       ev |-> NoEv]
                 ELSE Multi_sequential_result(t, [task EXCEPT !.obj = obj],
                                              W1, FALSE)

\* _execute_sequential once _execute_on_agent returned a TaskResult
Multi_sequential_result(t, task, W, success) ==
    LET W1 == [W EXCEPT ![task.obj].status = "idle",
                        ![task.obj].task_count = @ + 1]
        results == Append(task.results, TaskResult(task.ids[task.i], success))
    IN IF ~success /\ task.stop
       THEN [wrappers |-> W1, task |-> MultiTask,
             ev |-> Returned("execute_task", t, "", 0, results)]
       ELSE Multi_sequential_loop(t,
               [task EXCEPT !.results = results, !.i = @ + 1], W1)

Multi_apply(t, r) ==
    /\ wrappers' = r.wrappers
    /\ tasks' = [tasks EXCEPT ![t] = r.task]
    /\ ev' = r.ev
    /\ UNCHANGED <<agents, sess, execs, batch, now, emitted>>

\* execute_task up to its first suspension
Multi_execute_task(t, agent_ids, mode, stop_on_error) ==
    /\ FreeSlot(t)
    /\ \A i \in DOMAIN agent_ids :
          agent_ids[i] \in DOMAIN agents
          => wrappers[agents[agent_ids[i]]].task_count < MaxTaskCount
    /\ LET task == [MultiTask EXCEPT !.op = "execute_task", !.mode = mode,
                       !.ids = agent_ids]
       IN IF \/ agent_ids = <<>>
             \/ \E i \in DOMAIN agent_ids : agent_ids[i] \notin DOMAIN agents
             \/ mode \notin {"parallel", "sequential"}
          THEN Multi_apply(t, [wrappers |-> wrappers, task |-> MultiTask,
                  ev |-> Raised("execute_task", t, "", "ValueError")])
          ELSE IF mode = "parallel"
          THEN Multi_apply(t,
                  [wrappers |-> Multi_mark_busy(wrappers, agent_ids),
                   task |-> [task EXCEPT !.pc = "gather",
                                !.items = [i \in DOMAIN agent_ids |-> NewItem]],
                   ev |-> NoEv])
          ELSE Multi_apply(t,
                  Multi_sequential_loop(t,
                     [task EXCEPT !.stop = stop_on_error, !.i = 1], wrappers))

\* a coroutine of gather starts: _execute_on_agent looks the agent up
\* (KeyError when it is no longer registered) and awaits its adapter
Multi_execute_on_agent(t, i) ==
    /\ tasks[t].op = "execute_task"
    /\ tasks[t].pc = "gather"
    /\ i \in DOMAIN tasks[t].items
    /\ tasks[t].items[i].pc = "new"
    /\ \A j \in 1..(i - 1) : tasks[t].items[j].pc # "new"
    /\ LET id == tasks[t].ids[i]
           item == IF id \notin DOMAIN agents
                   THEN [NewItem EXCEPT !.pc = "done", !.exception = TRUE]
                   ELSE IF wrappers[agents[id]].adapter = "ready"
                   THEN [NewItem EXCEPT !.pc = "executing", !.obj = agents[id]]
                   ELSE [NewItem EXCEPT !.pc = "done", !.obj = agents[id],
                                        !.result = TaskResult(id, FALSE)]
       IN tasks' = [tasks EXCEPT ![t].items[i] = item]
    /\ ev' = NoEv
    /\ UNCHANGED <<agents, wrappers, sess, execs, batch, now, emitted>>

\* adapter.execute_task ends in a coroutine of gather: a TaskResult, failed
\* when the adapter reported or raised an error
Multi_adapter_returns(t, i, success) ==
    /\ tasks[t].op = "execute_task"
    /\ tasks[t].pc = "gather"
    /\ i \in DOMAIN tasks[t].items
    /\ tasks[t].items[i].pc = "executing"
    /\ tasks' = [tasks EXCEPT ![t].items[i].pc = "done",
                    ![t].items[i].result = TaskResult(tasks[t].ids[i], success)]
    /\ ev' = NoEv
    /\ UNCHANGED <<agents, wrappers, sess, execs, batch, now, emitted>>

\* the second loop of _execute_parallel: each agent is looked up again
\* (KeyError when it is no longer registered) and gets ERROR for an
\* exception, IDLE and a counted task for a TaskResult
RECURSIVE Multi_process_results(_, _, _, _)
Multi_process_results(t, i, W, results) ==
    IF i > Len(tasks[t].ids)
    THEN [wrappers |-> W, task |-> MultiTask,
          ev |-> Returned("execute_task", t, "", 0, results)]
    ELSE LET id == tasks[t].ids[i] IN
         IF id \notin DOMAIN agents
         THEN [wrappers |-> W, task |-> MultiTask,
               ev |-> Raised("execute_task", t, id, "KeyError")]
         ELSE IF tasks[t].items[i].exception
         THEN Multi_process_results(t, i + 1,
                 [W EXCEPT ![agents[id]].status = "error"],
                 Append(results, TaskResult(id, FALSE)))
         ELSE Multi_process_results(t, i + 1,
                 [W EXCEPT ![agents[id]].status = "idle",
                           ![agents[id]].task_count = @ + 1],
                 Append(results, tasks[t].items[i].result))

\* gather has all its results and _execute_parallel goes on
Multi_parallel_results(t) ==
    /\ tasks[t].op = "execute_task"
    /\ tasks[t].pc = "gather"
    /\ \A i \in DOMAIN tasks[t].items : tasks[t].items[i].pc = "done"
    /\ Multi_apply(t, Multi_process_results(t, 1, wrappers, <<>>))

\* adapter.execute_task ends for _execute_sequential, which goes on
Multi_sequential_returns(t, success) ==
    /\ tasks[t].op = "execute_task"
    /\ tasks[t].pc = "executing"
    /\ Multi_apply(t, Multi_sequential_result(t, tasks[t], wrappers, success))

\* terminate_agent up to `await adapter.close()`; close() of an adapter
\* without a client does not suspend
Multi_terminate_agent(t, agent_id) ==
    /\ FreeSlot(t)
    /\ IF agent_id \notin DOMAIN agents
       THEN /\ ev' = Raised("terminate_agent", t, agent_id, "ValueError")
            /\ UNCHANGED <<agents, wrappers, tasks>>
       ELSE LET obj == agents[agent_id] IN
            IF wrappers[obj].adapter = "ready"
            THEN /\ wrappers' = [wrappers EXCEPT ![obj].status = "stopping"]
                 /\ tasks' = [tasks EXCEPT ![t] =
                       [MultiTask EXCEPT !.op = "terminate_agent",
                           !.pc = "close", !.aid = agent_id, !.obj = obj]]
                 /\ ev' = NoEv
                 /\ UNCHANGED agents
            ELSE /\ wrappers' = [wrappers EXCEPT ![obj].status = "stopping"]
                 /\ agents' = [a \in DOMAIN agents \ {agent_id} |-> agents[a]]
                 /\ ev' = Returned("terminate_agent", t, agent_id, 0, <<>>)
                 /\ UNCHANGED tasks
    /\ UNCHANGED <<sess, execs, batch, now, emitted>>

\* terminate_agent after close(): the client is disconnected, and the agent
\* id is deleted from the registry (KeyError when it is no longer there)
Multi_terminate_closed(t) ==
    /\ tasks[t].op = "terminate_agent"
    /\ wrappers' = [wrappers EXCEPT ![tasks[t].obj].adapter = "closed"]
    /\ agents' = [a \in DOMAIN agents \ {tasks[t].aid} |-> agents[a]]
    /\ ev' = IF tasks[t].aid \in DOMAIN agents
             THEN Returned("terminate_agent", t, tasks[t].aid, 0, <<>>)
             ELSE Raised("terminate_agent", t, tasks[t].aid, "KeyError")
    /\ tasks' = [tasks EXCEPT ![t] = MultiTask]
    /\ UNCHANGED <<sess, execs, batch, now, emitted>>

\* MultiAgentManager.__init__
MultiInit ==
    /\ agents = <<>>
    /\ wrappers = <<>>
    /\ sess = <<>>
    /\ execs = [c \in 1..MaxCalls |-> IdleExec]
    /\ tasks = [t \in 1..MaxTasks |-> MultiTask]
    /\ batch = NoBatch
    /\ now = 0
    /\ emitted = 0
    /\ ev = NoEv

MultiNext ==
    \/ \E t \in 1..MaxTasks, a \in AgentIds, n \in MultiAdapterTypes,
          preset_fails \in BOOLEAN :
          Multi_register_agent(t, a, n, preset_fails)
    \/ \E t \in 1..MaxTasks, connect_fails \in BOOLEAN :
          Multi_register_initialized(t, connect_fails)
    \/ \E t \in 1..MaxTasks, ids \in AgentIdLists, mode \in Modes,
          stop_on_error \in BOOLEAN :
          Multi_execute_task(t, ids, mode, stop_on_error)
    \/ \E t \in 1..MaxTasks, i \in 1..MaxTargets : Multi_execute_on_agent(t, i)
    \/ \E t \in 1..MaxTasks, i \in 1..MaxTargets, success \in BOOLEAN :
          Multi_adapter_returns(t, i, success)
    \/ \E t \in 1..MaxTasks : Multi_parallel_results(t)
    \/ \E t \in 1..MaxTasks, success \in BOOLEAN :
          Multi_sequential_returns(t, success)
    \/ \E t \in 1..MaxTasks, a \in AgentIds : Multi_terminate_agent(t, a)
    \/ \E t \in 1..MaxTasks : Multi_terminate_closed(t)

MultiSpec == MultiInit /\ [][MultiNext]_vars

\* adapter.execute_task, begun by an execute_task call, has not ended on
\* the adapter of agent_info number obj
Executing(obj) ==
    \E t \in DOMAIN tasks :
        /\ tasks[t].op = "execute_task"
        /\ \/ tasks[t].pc = "executing" /\ tasks[t].obj = obj
           \/ \E i \in DOMAIN tasks[t].items :
                 /\ tasks[t].items[i].pc = "executing"
                 /\ tasks[t].items[i].obj = obj

\* C37: an agent on whose adapter a task of execute_task is executing has
\* the status BUSY (unless a terminate_agent has set STOPPING), also when
\* several execute_task calls overlap on it.
C37_BusyWhileExecuting ==
    \A obj \in DOMAIN wrappers :
        (Executing(obj) /\ wrappers[obj].status # "stopping")
        => wrappers[obj].status = "busy"

\* C38: a register_agent call never replaces the agent_info stored under an
\* agent id: a step changes what an id is registered to only by removing
\* it, and a register_agent call returns only for an id that was not
\* registered.
C38_RegisteredEntryIsKept ==
    [][/\ \A a \in DOMAIN agents :
             a \in DOMAIN agents' => agents'[a] = agents[a]
       /\ (ev'.op = "register_agent" /\ ev'.kind = "return")
          => ev'.aid \notin DOMAIN agents]_vars

\* C39: an execute_task call that has passed its validation does not raise:
\* it raises only ValueError, in the step in which it is called, and when
\* it returns in parallel mode its list has one TaskResult for each listed
\* agent, in the order of the list.
C39_ValidatedTaskReturns ==
    [][\A t \in DOMAIN tasks :
          (ev'.op = "execute_task" /\ ev'.who = t)
          => /\ ev'.kind = "raise"
                => ev'.err = "ValueError" /\ tasks[t].op = "idle"
             /\ (ev'.kind = "return" /\ tasks[t].mode = "parallel")
                => /\ Len(ev'.res) = Len(tasks[t].ids)
                   /\ \A i \in DOMAIN ev'.res :
                         ev'.res[i].task_id = tasks[t].ids[i]]_vars

====
